---- MODULE Spec2Model ----
(***************************************************************************)
(* GitHub -> Notion synchronisation (soborlo).                             *)
(*                                                                         *)
(* Spec          the forward run: processAllItems over a batch of items,   *)
(*               one network call per step (src/services/sync-processor.ts,*)
(*               src/services/notion.ts).                                  *)
(* SpecResolve   findExistingNotionPage called twice for the same item.    *)
(* SpecTranslate mapGitHubStatusToNotion applied to drawn inputs.          *)
(* SpecMatch     matchNotionWithGitHub for one page and drawn issue lists. *)
(* SpecRev       reverseSyncNotionToGitHub, a dry run and a live run over  *)
(*               the same fixture (src/reverse-sync.ts).                   *)
(* SpecRetry     one call of retryWithBackoff (src/utils/retry.ts);        *)
(*               SpecRetryFair adds the progress of the loop.              *)
(* SpecWrites    one request to Notion, with the retry that wraps it or    *)
(*               not (src/services/notion.ts).                             *)
(* SpecMain      the start of the forward and of the reverse run: the      *)
(*               inputs, their validation, the first requests.             *)
(* SpecItem      the forward run over a single item, with every kind of    *)
(*               project status.                                           *)
(* SpecStatus    SpecItem or SpecRev: the status sync of both directions.  *)
(* SpecAgain     SpecItem, each run remembering how the run before it      *)
(*               ended.                                                    *)
(* SpecProjectStatus  getProjectStatus applied to drawn responses of the   *)
(*               GitHub GraphQL API (src/services/github.ts).              *)
(* SpecProject   the forward run over the items of an organization         *)
(*               project, which come from several repositories.            *)
(* SpecRetried   updateNotionPage / updateNotionPageStatus of one item,    *)
(*               request by request inside retryWithBackoff.               *)
(*                                                                         *)
(* The Japanese status labels of the source are written in romaji, since   *)
(* the strings of a module are ASCII: Otesukini ("when free"), KonshuuYaru *)
(* ("this week"), Chakushuchuu ("in progress"), Soudanchuu ("in            *)
(* discussion"), Kanryou ("done"), Mukou ("invalid").                      *)
(***************************************************************************)
EXTENDS Integers, Sequences, FiniteSets, TLC

VARIABLES
    entry,          \* the entry point: "batch", "resolve", "translate", "match", "reverse", "retry", "writes", "main", "retried", "projectStatus"
    items,          \* the batch handed to processAllItems (GitHubItem[])
    githubToken,    \* config.githubToken is set
    projectStatus,  \* GitHub Projects: issue number -> Status name or Null
    db,             \* the Notion database: sequence of pages, in query order
    run,            \* number of the current run
    idx,            \* index in items of the item being processed (0: none yet)
    pc,             \* position inside processSingleItem / the batch
    page,           \* existingPage / newPage: index in db, 0 for null
    foundBy,        \* strategy that found existingPage: "ID", "Number", "URL", "none"
    githubStatus,   \* result of getProjectStatus for the current item
    trace,          \* network calls issued for the current item, with outcome
    attempted,      \* indices of the items processSingleItem was called for, this run
    failures,       \* SyncErrors raised in this run: [itemType, itemNumber, cause, idx]
    thrown,         \* processAllItems rejected (the SyncError propagated)
    faults,         \* network calls that failed since the first run began
    snap,           \* Status of every page when the previous run ended
    createdInRun,   \* pages created by the current run
    matchedAtStart, \* a page matched the current item when its processing began
    first,          \* SpecResolve: outcome of the first findExistingNotionPage
    previous,       \* SpecAgain: the calls and the page of the item the previous run ended with
    resolved,       \* item index -> the page (existingPage or newPage) the item got in this run, 0 for none
    translated,     \* SpecTranslate: inputs given to mapGitHubStatusToNotion, with results
    notionPages,    \* reverse sync: the pages of the database, [title, Status]
    githubIssues,   \* reverse sync: what getIssues returns, [number, title]
    issueStatus,    \* reverse sync: GitHub Projects Status of each issue number
    matchResults,   \* SpecMatch: what matchNotionWithGitHub returned
    rev,            \* SpecRev: the state of the dry run (TRUE) and of the live run (FALSE)
    retry,          \* SpecRetry: one call of retryWithBackoff
    callOp,         \* SpecWrites: the destination call that is made
    boot,           \* SpecMain: the inputs of a run and how far it got
    statusQuery     \* SpecProjectStatus: one call of getProjectStatus, its inputs and result

fwdVars == <<items, githubToken, projectStatus, db, run, idx, pc, page, foundBy,
             githubStatus, trace, attempted, failures, thrown, faults, snap,
             createdInRun, matchedAtStart, first, previous, resolved>>

\* the variables the forward run leaves alone
revVars == <<notionPages, githubIssues, issueStatus, matchResults, rev>>

nonFwd == <<translated, revVars>>

\* the variables of the specifications of single functions
auxVars == <<retry, callOp, boot, statusQuery>>

vars == <<entry, fwdVars, nonFwd, auxVars>>

-----------------------------------------------------------------------------
(* Bounds of the model *)

MaxBatch == 3
MaxInitRecords == 1
MaxRuns == 2
MaxFaults == 2
MaxTranslations == 2
MaxCandidates == 2
MaxPages == 2
MaxIssues == 1
MaxRevFaults == 1
MaxProjects == 2

-----------------------------------------------------------------------------
(* Values *)

Null == "<null>"
NotStarted == "Not started"

\* A JavaScript value: a string, or something that is not a string.
JsString(s) == [type |-> "string", val |-> s]
JsOther(t, s) == [type |-> t, val |-> s]

\* A string that is taken apart is a sequence of characters
Uppers == <<"A", "B", "C", "D", "E", "F", "G", "H", "I", "J", "K", "L", "M",
            "N", "O", "P", "Q", "R", "S", "T", "U", "V", "W", "X", "Y", "Z">>
Lowers == <<"a", "b", "c", "d", "e", "f", "g", "h", "i", "j", "k", "l", "m",
            "n", "o", "p", "q", "r", "s", "t", "u", "v", "w", "x", "y", "z">>

\* item.state
open == <<"o", "p", "e", "n">>
closed == <<"c", "l", "o", "s", "e", "d">>

\* The items of the repository, in the order in which the fetcher lists
\* them: issues and pull requests of one repository have distinct numbers.
ItemOrder ==
    << [id |-> "a", number |-> 1, html_url |-> "r1/issues/1", state |-> open,
        merged |-> "absent"],
       [id |-> "c", number |-> 2, html_url |-> "r1/issues/2", state |-> closed,
        merged |-> "absent"],
       [id |-> "d", number |-> 3, html_url |-> "r1/issues/3", state |-> open,
        merged |-> "false"] >>

\* An item of another repository that is synchronised into the same database
OtherRepoItem ==
    [id |-> "b", number |-> 1, html_url |-> "r2/issues/1", state |-> open, merged |-> "absent"]

SubSeqOf(s, keep) == SelectSeq([i \in 1..Len(s) |-> i], LAMBDA i : i \in keep)

ItemUniverse == {ItemOrder[i] : i \in 1..Len(ItemOrder)}

Numbers == {it.number : it \in ItemUniverse}

\* The batches: 1..MaxBatch of the items, in that order
Batches ==
    { [k \in 1..Cardinality(keep) |-> ItemOrder[SubSeqOf(ItemOrder, keep)[k]]] :
        keep \in { K \in SUBSET (1..Len(ItemOrder)) : Cardinality(K) \in 1..MaxBatch } }

\* Pages a database may hold before the first run: the page of one of the
\* first two items, fully synced, with a missing ID field, or with only the
\* URL left; or the page of the other repository's item.
InitRecordUniverse ==
    UNION { { [ID |-> it.id, Number |-> it.number, URL |-> it.html_url,
               State |-> <<"O", "p", "e", "n">>, Status |-> "Soudanchuu"],
              [ID |-> "",    Number |-> it.number, URL |-> it.html_url,
               State |-> <<"O", "p", "e", "n">>, Status |-> "Soudanchuu"],
              [ID |-> "",    Number |-> 0,         URL |-> it.html_url,
               State |-> <<"O", "p", "e", "n">>, Status |-> "Soudanchuu"] }
            : it \in {ItemOrder[1], ItemOrder[2]} }
    \cup { [ID |-> OtherRepoItem.id, Number |-> OtherRepoItem.number,
            URL |-> OtherRepoItem.html_url,
            State |-> <<"O", "p", "e", "n">>, Status |-> "Soudanchuu"] }

InitDbs == UNION { [1..k -> InitRecordUniverse] : k \in 0..MaxInitRecords }

\* What GitHub Projects may report as the Status of an issue
ProjectStatusValues == {Null, "Backlog", "constructor"}

-----------------------------------------------------------------------------
(* src/services/notion.ts *)

\* statusMap: its own keys
statusMapKeys == {"Otesukini", "Backlog", "KonshuuYaru", "Chakushuchuu", "Soudanchuu", "Kanryou"}

\* Properties every object literal inherits from Object.prototype
ObjectPrototypeFunctions ==
    {"constructor", "toString", "valueOf", "hasOwnProperty", "toLocaleString"}

\* statusMap[githubStatus]: own property, inherited property, or undefined
statusMapLookup(s) ==
    IF s \in statusMapKeys THEN JsString(s)
    ELSE IF s \in ObjectPrototypeFunctions THEN JsOther("function", s)
    ELSE IF s = "__proto__" THEN JsOther("object", "Object.prototype")
    ELSE JsOther("undefined", "undefined")

mapGitHubStatusToNotion_wrongEntry(s) ==
    IF s = "Kanryou" THEN JsString("Done")
    ELSE IF s \in statusMapKeys THEN JsString(s) ELSE JsString(NotStarted)

\* statusMap[githubStatus] || 'Not started'
mapGitHubStatusToNotion(s) ==
    LET mapped == statusMapLookup(s)
    IN  IF mapped.type = "undefined" THEN JsString(NotStarted) ELSE mapped

searchNotionByField_alwaysEmpty(d, fieldName, fieldValue, ok) == <<>>

searchNotionByField_failureIgnored(d, fieldName, fieldValue, ok) ==
    SelectSeq([i \in 1..Len(d) |-> i], LAMBDA i : d[i][fieldName] = fieldValue)

\* searchNotionByField: indices of the pages whose field equals the value;
\* a failed query is caught and yields []
searchNotionByField(d, fieldName, fieldValue, ok) ==
    IF ok THEN SelectSeq([i \in 1..Len(d) |-> i], LAMBDA i : d[i][fieldName] = fieldValue)
    ELSE <<>>

firstResult_last(results) == results[Len(results)]

\* findExistingNotionPage: const page = results[0]
firstResult(results) == results[1]

verifyAndFixNotionId_noWrite(d, p, expectedId, ok) == d

needsIdFix_never(d, p, expectedId) == FALSE

needsIdFix_always(d, p, expectedId) == TRUE

\* verifyAndFixNotionId: a write is issued only when the ID differs
needsIdFix(d, p, expectedId) == d[p].ID # expectedId

verifyAndFixNotionId(d, p, expectedId, ok) ==
    IF needsIdFix(d, p, expectedId) /\ ok
    THEN [d EXCEPT ![p].ID = expectedId]
    ELSE d

toUpperCase(c) ==
    IF \E i \in 1..Len(Lowers) : Lowers[i] = c
    THEN Uppers[CHOOSE i \in 1..Len(Lowers) : Lowers[i] = c]
    ELSE c

createNotionPageData_rawState(item, isUpdate) ==
    IF isUpdate
    THEN [ID |-> item.id, Number |-> item.number, URL |-> item.html_url,
          State |-> item.state]
    ELSE [ID |-> item.id, Number |-> item.number, URL |-> item.html_url,
          State |-> item.state, Status |-> NotStarted]

\* item.state.charAt(0).toUpperCase() + item.state.slice(1)
capitalizedState(state) ==
    IF state = <<>> THEN <<>> ELSE <<toUpperCase(state[1])>> \o Tail(state)

\* as if the ID were written by setNotionPageId alone
createNotionPageData_noIdOnCreate(item, isUpdate) ==
    IF isUpdate
    THEN [ID |-> item.id, Number |-> item.number, URL |-> item.html_url,
          State |-> capitalizedState(item.state)]
    ELSE [ID |-> "", Number |-> item.number, URL |-> item.html_url,
          State |-> capitalizedState(item.state), Status |-> NotStarted]

createNotionPageData_statusOnUpdate(item, isUpdate) ==
    [ID |-> item.id, Number |-> item.number, URL |-> item.html_url,
     State |-> capitalizedState(item.state), Status |-> NotStarted]

\* createNotionPageData: the keys of the payload beside properties; parent,
\* icon and children (of an item with a body) only on create
pageDataKeys(isUpdate, hasBody) ==
    {"properties"}
        \cup (IF ~isUpdate THEN {"parent", "icon"} ELSE {})
        \cup (IF ~isUpdate /\ hasBody THEN {"children"} ELSE {})

\* createNotionPageData: the properties written; Status only on create
createNotionPageData(item, isUpdate) ==
    IF isUpdate
    THEN [ID |-> item.id, Number |-> item.number, URL |-> item.html_url,
          State |-> capitalizedState(item.state)]
    ELSE [ID |-> item.id, Number |-> item.number, URL |-> item.html_url,
          State |-> capitalizedState(item.state), Status |-> NotStarted]

\* PATCH /v1/pages/{id}: the properties of the payload replace the page's
patchPage(d, p, props) ==
    [d EXCEPT ![p] = [f \in DOMAIN d[p] |-> IF f \in DOMAIN props THEN props[f] ELSE d[p][f]]]

-----------------------------------------------------------------------------
(* src/services/sync-processor.ts *)

Item == items[idx]

Matches(d, item) ==
    \E i \in 1..Len(d) :
        \/ d[i].ID = item.id
        \/ d[i].Number = item.number
        \/ d[i].URL = item.html_url

Statuses(d) == [i \in 1..Len(d) |-> d[i].Status]

branchAfterLookup_alwaysCreate(existingPage) == "create"

\* processSingleItem: create when findExistingNotionPage returned null
branchAfterLookup(existingPage) ==
    IF existingPage # 0 THEN "update" ELSE "create"

\* where the caller of findExistingNotionPage continues
afterLookup(existingPage) ==
    IF entry = "resolve" THEN "returned" ELSE branchAfterLookup(existingPage)

afterWrite_always == "fetchStatus"

\* handleExistingPage / handleNewPage: status sync only with a GitHub token
afterWrite == IF githubToken THEN "fetchStatus" ELSE "itemDone"

afterCreate_skipSetId == afterWrite

\* handleNewPage: createNotionPage is followed by setNotionPageId
afterCreate == "setId"

hasStatus_always(status) == TRUE

\* if (githubStatus): null and the empty string are falsy
hasStatus(status) == status \notin {Null, ""}

Call(op, ok) == [op |-> op, ok |-> ok]

\* a network call succeeds or fails; at most MaxFaults calls fail
Outcomes == IF faults < MaxFaults THEN {TRUE, FALSE} ELSE {TRUE}

nextItem_sameAgain(i) == IF i = 0 THEN 1 ELSE i

\* for (const item of items): the item after the one just processed
nextItem(i) == i + 1

\* processAllItems: for (const item of items) await processSingleItem(...)
BeginItem ==
    /\ entry = "batch"
    /\ pc = "loop"
    /\ idx < Len(items)
    /\ idx' = nextItem(idx)
    /\ pc' = "queryID"
    /\ page' = 0
    /\ foundBy' = "none"
    /\ githubStatus' = Null
    /\ trace' = <<>>
    /\ attempted' = attempted \cup {nextItem(idx)}
    /\ matchedAtStart' = Matches(db, items[nextItem(idx)])
    /\ UNCHANGED <<auxVars, entry, items, githubToken, projectStatus, db, run, failures, thrown,
                   faults, snap, createdInRun, first, previous, resolved, nonFwd>>

\* the loop ran out of items: processAllItems resolves
EndBatch ==
    /\ entry = "batch"
    /\ pc = "loop"
    /\ idx = Len(items)
    /\ pc' = "done"
    /\ UNCHANGED <<auxVars, entry, items, githubToken, projectStatus, db, run, idx, page, foundBy,
                   githubStatus, trace, attempted, failures, thrown, faults, snap,
                   createdInRun, matchedAtStart, first, previous, resolved, nonFwd>>

\* one strategy of findExistingNotionPage
Query(at, fieldName, fieldValue, ifEmpty, ok) ==
    /\ pc = at
    /\ LET results == searchNotionByField(db, fieldName, fieldValue, ok)
       IN  /\ trace' = Append(trace, Call(at, ok))
           /\ faults' = faults + (IF ok THEN 0 ELSE 1)
           /\ IF Len(results) > 0
              THEN /\ page' = firstResult(results)
                   /\ foundBy' = fieldName
                   /\ pc' = "verify"
              ELSE /\ page' = 0
                   /\ foundBy' = "none"
                   /\ pc' = ifEmpty
    /\ UNCHANGED <<auxVars, entry, items, githubToken, projectStatus, db, run, idx, githubStatus,
                   attempted, failures, thrown, snap, createdInRun, matchedAtStart, first, previous, resolved, nonFwd>>

QueryID == \E ok \in Outcomes : Query("queryID", "ID", Item.id, "queryNumber", ok)

QueryNumber == \E ok \in Outcomes : Query("queryNumber", "Number", Item.number, "queryURL", ok)

QueryURL == \E ok \in Outcomes : Query("queryURL", "URL", Item.html_url, afterLookup(0), ok)

\* verifyAndFixNotionId on the page found, then findExistingNotionPage returns it
Verify ==
    /\ pc = "verify"
    /\ \E ok \in Outcomes :
        /\ (~ok => needsIdFix(db, page, Item.id))
        /\ db' = verifyAndFixNotionId(db, page, Item.id, ok)
        /\ trace' = IF needsIdFix(db, page, Item.id)
                    THEN Append(trace, Call("fixID", ok)) ELSE trace
        /\ faults' = faults + (IF ok THEN 0 ELSE 1)
    /\ pc' = afterLookup(page)
    /\ resolved' = [resolved EXCEPT ![idx] = page]
    /\ UNCHANGED <<auxVars, entry, items, githubToken, projectStatus, run, idx, page, foundBy,
                   githubStatus, attempted, failures, thrown, snap, createdInRun,
                   matchedAtStart, first, previous, nonFwd>>

\* 'merged' in item ? 'Pull Request' : 'Issue'
itemTypeOf(item) == IF item.merged # "absent" THEN "Pull Request" ELSE "Issue"

\* the error a failed request of a call rejects with: an Error instance
AxiosError(op) == [instanceOfError |-> TRUE, thrownBy |-> op]

Undefined == [instanceOfError |-> FALSE, thrownBy |-> "undefined"]

createSyncError_noCause(itemType, itemNumber, originalError) ==
    [itemType |-> itemType, itemNumber |-> itemNumber, cause |-> Undefined]

\* createSyncError: the cause is kept when it is an Error
createSyncError(itemType, itemNumber, originalError) ==
    [itemType |-> itemType, itemNumber |-> itemNumber,
     cause |-> IF originalError.instanceOfError THEN originalError ELSE Undefined]

\* processSingleItem's catch: createSyncError, throw; processAllItems has no
\* handler, so the rejection ends the loop
ItemThrows ==
    /\ failures' = Append(failures,
            createSyncError(itemTypeOf(Item), Item.number, AxiosError(trace'[Len(trace')].op))
                @@ [idx |-> idx])
    /\ thrown' = TRUE
    /\ pc' = "thrown"

ItemSucceeds ==
    /\ pc' = "loop"
    /\ UNCHANGED <<failures, thrown>>

\* handleExistingPage: updateNotionPage(pageId, pageData)
Update ==
    /\ pc = "update"
    /\ \E ok \in Outcomes :
        /\ trace' = Append(trace, Call("update", ok))
        /\ faults' = faults + (IF ok THEN 0 ELSE 1)
        /\ IF ok
           THEN /\ db' = patchPage(db, page, createNotionPageData(Item, TRUE))
                /\ IF afterWrite = "itemDone" THEN ItemSucceeds
                   ELSE pc' = afterWrite /\ UNCHANGED <<failures, thrown>>
           ELSE /\ db' = db
                /\ ItemThrows
    /\ UNCHANGED <<auxVars, entry, items, githubToken, projectStatus, run, idx, page, foundBy,
                   githubStatus, attempted, snap, createdInRun, matchedAtStart, first, previous, resolved, nonFwd>>

\* handleNewPage: createNotionPage(pageData)
Create ==
    /\ pc = "create"
    /\ \E ok \in Outcomes :
        /\ trace' = Append(trace, Call("create", ok))
        /\ faults' = faults + (IF ok THEN 0 ELSE 1)
        /\ IF ok
           THEN /\ db' = Append(db, createNotionPageData(Item, FALSE))
                /\ page' = Len(db) + 1
                /\ resolved' = [resolved EXCEPT ![idx] = Len(db) + 1]
                /\ createdInRun' = createdInRun + 1
                /\ pc' = afterCreate
                /\ UNCHANGED <<failures, thrown>>
           ELSE /\ UNCHANGED <<db, page, resolved, createdInRun>>
                /\ ItemThrows
    /\ UNCHANGED <<auxVars, entry, items, githubToken, projectStatus, run, idx, foundBy,
                   githubStatus, attempted, snap, matchedAtStart, first, previous, nonFwd>>

\* handleNewPage: setNotionPageId(newPage.id, item.id)
SetId ==
    /\ pc = "setId"
    /\ \E ok \in Outcomes :
        /\ trace' = Append(trace, Call("setId", ok))
        /\ faults' = faults + (IF ok THEN 0 ELSE 1)
        /\ IF ok
           THEN /\ db' = patchPage(db, page, [ID |-> Item.id])
                /\ IF afterWrite = "itemDone" THEN ItemSucceeds
                   ELSE pc' = afterWrite /\ UNCHANGED <<failures, thrown>>
           ELSE /\ db' = db
                /\ ItemThrows
    /\ UNCHANGED <<auxVars, entry, items, githubToken, projectStatus, run, idx, page, foundBy,
                   githubStatus, attempted, snap, createdInRun, matchedAtStart, first, previous, resolved, nonFwd>>

\* syncProjectStatus: getProjectStatus catches every failure and returns null
FetchStatus ==
    /\ pc = "fetchStatus"
    /\ \E ok \in Outcomes :
        /\ trace' = Append(trace, Call("getProjectStatus", ok))
        /\ faults' = faults + (IF ok THEN 0 ELSE 1)
        /\ githubStatus' = IF ok THEN projectStatus[Item.number] ELSE Null
        /\ IF hasStatus(githubStatus')
           THEN pc' = "patchStatus" /\ UNCHANGED <<failures, thrown>>
           ELSE ItemSucceeds
    /\ UNCHANGED <<auxVars, entry, items, githubToken, projectStatus, db, run, idx, page, foundBy,
                   attempted, snap, createdInRun, matchedAtStart, first, previous, resolved, nonFwd>>

\* syncProjectStatus: updateNotionPageStatus(pageId, mapGitHubStatusToNotion(...));
\* Notion rejects a status whose name is not a string
PatchStatus ==
    /\ pc = "patchStatus"
    /\ LET notionStatus == mapGitHubStatusToNotion(githubStatus)
       IN  \E ok \in (IF notionStatus.type = "string" THEN Outcomes ELSE {FALSE}) :
            /\ trace' = Append(trace, Call("patchStatus", ok))
            /\ faults' = faults + (IF ok THEN 0 ELSE 1)
            /\ IF ok
               THEN /\ db' = patchPage(db, page, [Status |-> notionStatus.val])
                    /\ ItemSucceeds
               ELSE /\ db' = db
                    /\ ItemThrows
    /\ UNCHANGED <<auxVars, entry, items, githubToken, projectStatus, run, idx, page, foundBy,
                   githubStatus, attempted, snap, createdInRun, matchedAtStart, first, previous, resolved, nonFwd>>

\* the action is triggered again (schedule, next event): a new process
NextRun ==
    /\ entry = "batch"
    /\ pc \in {"done", "thrown"}
    /\ run < MaxRuns
    /\ run' = run + 1
    /\ idx' = 0
    /\ pc' = "loop"
    /\ page' = 0
    /\ foundBy' = "none"
    /\ githubStatus' = Null
    /\ trace' = <<>>
    /\ attempted' = {}
    /\ failures' = <<>>
    /\ thrown' = FALSE
    /\ snap' = Statuses(db)
    /\ createdInRun' = 0
    /\ matchedAtStart' = FALSE
    /\ resolved' = [k \in 1..Len(items) |-> 0]
    /\ UNCHANGED <<auxVars, entry, items, githubToken, projectStatus, db, faults, first, previous, nonFwd>>

\* the specifications of single functions are not running
AuxIdle ==
    /\ retry = <<>>
    /\ callOp = "none"
    /\ boot = <<>>
    /\ statusQuery = <<>>

\* the reverse sync is not part of the specification
RevIdle ==
    /\ notionPages = <<>>
    /\ githubIssues = <<>>
    /\ issueStatus = <<>>
    /\ matchResults = <<>>
    /\ rev = <<>>

\* the forward run before its first item
FwdStart ==
    /\ run = 1
    /\ idx = 0
    /\ pc = "loop"
    /\ page = 0
    /\ foundBy = "none"
    /\ githubStatus = Null
    /\ trace = <<>>
    /\ attempted = {}
    /\ failures = <<>>
    /\ thrown = FALSE
    /\ faults = 0
    /\ snap = <<>>
    /\ createdInRun = 0
    /\ matchedAtStart = FALSE
    /\ first = [foundBy |-> "none", page |-> 0, stale |-> FALSE, clean |-> FALSE]
    /\ previous = [trace |-> <<>>, page |-> 0]
    /\ resolved = [k \in 1..Len(items) |-> 0]

\* the forward run is not part of the specification
FwdIdle ==
    /\ items = <<>>
    /\ githubToken = FALSE
    /\ projectStatus = [n \in Numbers |-> Null]
    /\ db = <<>>
    /\ FwdStart

Init ==
    /\ entry = "batch"
    /\ AuxIdle
    /\ items \in Batches
    /\ githubToken \in BOOLEAN
    /\ projectStatus \in [Numbers -> ProjectStatusValues]
    /\ \A n \in Numbers :
          (~githubToken \/ \A k \in 1..Len(items) : items[k].number # n) => projectStatus[n] = Null
    /\ db \in InitDbs
    /\ FwdStart
    /\ translated = <<>>
    /\ RevIdle

Next ==
    \/ BeginItem
    \/ EndBatch
    \/ QueryID
    \/ QueryNumber
    \/ QueryURL
    \/ Verify
    \/ Update
    \/ Create
    \/ SetId
    \/ FetchStatus
    \/ PatchStatus
    \/ NextRun

Spec == Init /\ [][Next]_vars

-----------------------------------------------------------------------------
(* Properties of the forward run *)

BatchEnded == entry = "batch" /\ pc \in {"done", "thrown"}

Ops(t) == [k \in 1..Len(t) |-> t[k].op]

Range(f) == {f[x] : x \in DOMAIN f}

\* C1: a failing item does not stop the batch: every item after a failed
\* item is still attempted and processAllItems does not reject.
C1_FailureIsolated ==
    BatchEnded =>
        /\ ~thrown
        /\ \A k \in 1..Len(failures) :
              \A j \in (failures[k].idx + 1)..Len(items) : j \in attempted

\* C2: no page is created for an item that a page of the database already
\* matched by ID, Number or URL, whatever the outcome of the lookup queries.
C2_NoCreateWhenMatched ==
    \A k \in 1..Len(trace) :
        (trace[k].op = "create" /\ trace[k].ok) => ~matchedAtStart

\* C3: createNotionPage is called only after findExistingNotionPage has
\* gone through its three strategies and returned null, and at most once
\* per item per run.
C3_LookupBeforeCreate ==
    \A k \in 1..Len(trace) :
        trace[k].op = "create" =>
            /\ SubSeq(Ops(trace), 1, k - 1) = <<"queryID", "queryNumber", "queryURL">>
            /\ foundBy = "none"
            /\ \A j \in 1..Len(trace) : trace[j].op = "create" => j = k

C3_Witness ==
    /\ entry = "batch"
    /\ \E k \in 1..Len(trace) : trace[k].op = "create" /\ trace[k].ok
    /\ pc = "setId"

\* C4: a run that follows failure-free runs on the same items and the same
\* external statuses, and has no failing call itself, creates no page and
\* leaves the Status of every page as the previous run left it.
C4_SecondRunIdempotent ==
    (entry = "batch" /\ run >= 2 /\ pc = "done" /\ faults = 0) =>
        /\ createdInRun = 0
        /\ Statuses(db) = snap

C4_Witness ==
    /\ entry = "batch" /\ run = 2 /\ pc = "done" /\ faults = 0
    /\ Len(items) >= 2
    /\ githubToken
    /\ \E i \in 1..Len(db) : db[i].Status = "Backlog" /\ db[i].ID = items[Len(items)].id
    /\ Len(snap) = Len(db)

\* processSingleItem has returned for the current item, which no page
\* matched and for which a page was created
CreatedAndDone ==
    /\ entry = "batch"
    /\ pc = "loop"
    /\ idx >= 1
    /\ ~matchedAtStart
    /\ \E k \in 1..Len(trace) : trace[k].op = "create"

\* C16: for an item that no page matched, once processSingleItem has
\* completed without error the database holds exactly one page for it, with
\* the item's number as Number, the item's state capitalised as State (open
\* -> Open, closed -> Closed), the item's id as ID, and Status 'Not started'
\* when no GitHub token is configured.
C16_CreatedRecordShape ==
    CreatedAndDone =>
        /\ Cardinality({i \in 1..Len(db) : db[i].ID = Item.id \/ db[i].Number = Item.number
                                             \/ db[i].URL = Item.html_url}) = 1
        /\ db[page].ID = Item.id
        /\ db[page].Number = Item.number
        /\ Item.state = <<"o", "p", "e", "n">> => db[page].State = <<"O", "p", "e", "n">>
        /\ Item.state = <<"c", "l", "o", "s", "e", "d">>
              => db[page].State = <<"C", "l", "o", "s", "e", "d">>
        /\ ~githubToken => db[page].Status = "Not started"

C16_Witness ==
    /\ CreatedAndDone
    /\ ~githubToken
    /\ Item.id = "c"
    /\ db[page] = [ID |-> "c", Number |-> 2, URL |-> "r1/issues/2",
                   State |-> <<"C", "l", "o", "s", "e", "d">>, Status |-> "Not started"]

-----------------------------------------------------------------------------
(* findExistingNotionPage called again for the same item *)

Clean(t) == \A k \in 1..Len(t) : t[k].ok

ResolveAgain ==
    /\ entry = "resolve"
    /\ pc = "returned"
    /\ run < MaxRuns
    /\ run' = run + 1
    /\ first' = [foundBy |-> foundBy, page |-> page,
                 stale |-> (\E k \in 1..Len(trace) : trace[k].op = "fixID"),
                 clean |-> Clean(trace)]
    /\ pc' = "queryID"
    /\ page' = 0
    /\ foundBy' = "none"
    /\ trace' = <<>>
    /\ UNCHANGED <<auxVars, entry, items, githubToken, projectStatus, db, idx, githubStatus,
                   attempted, failures, thrown, faults, snap, createdInRun,
                   matchedAtStart, previous, resolved, nonFwd>>

InitResolve ==
    /\ entry = "resolve"
    /\ AuxIdle
    /\ items \in {b \in Batches : Len(b) = 1}
    /\ githubToken = FALSE
    /\ projectStatus = [n \in Numbers |-> Null]
    /\ db \in InitDbs
    /\ run = 1 /\ idx = 1 /\ pc = "queryID"
    /\ page = 0 /\ foundBy = "none" /\ githubStatus = Null /\ trace = <<>>
    /\ attempted = {1} /\ failures = <<>> /\ thrown = FALSE /\ faults = 0
    /\ snap = <<>> /\ createdInRun = 0 /\ matchedAtStart = FALSE
    /\ first = [foundBy |-> "none", page |-> 0, stale |-> FALSE, clean |-> FALSE]
    /\ previous = [trace |-> <<>>, page |-> 0]
    /\ resolved = <<0>>
    /\ translated = <<>>
    /\ RevIdle

NextResolve ==
    \/ QueryID
    \/ QueryNumber
    \/ QueryURL
    \/ Verify
    \/ ResolveAgain

SpecResolve == InitResolve /\ [][NextResolve]_vars

-----------------------------------------------------------------------------
(* mapGitHubStatusToNotion on its own *)

\* Inputs: the six labels, the empty string, labels that are not in the
\* table, and names that every JavaScript object inherits
StatusInputs ==
    statusMapKeys \cup {"", "In review", "backlog", "constructor", "__proto__"}

Translate ==
    /\ entry = "translate"
    /\ Len(translated) < MaxTranslations
    /\ \E s \in StatusInputs :
        translated' = Append(translated, [input |-> s, output |-> mapGitHubStatusToNotion(s)])
    /\ UNCHANGED <<auxVars, entry, fwdVars, revVars>>

InitTranslate ==
    /\ entry = "translate"
    /\ AuxIdle
    /\ FwdIdle
    /\ translated = <<>>
    /\ RevIdle

NextTranslate == Translate

SpecTranslate == InitTranslate /\ [][NextTranslate]_vars

\* C6: every input string is translated to a string, and an input that is
\* not one of the six labels to the default 'Not started'.
C6_TranslateTotal ==
    \A k \in 1..Len(translated) :
        /\ translated[k].output.type = "string"
        /\ translated[k].input \notin statusMapKeys =>
              translated[k].output = JsString(NotStarted)

\* C7: each of the six labels is translated to itself.
C7_KnownLabelsFixed ==
    \A k \in 1..Len(translated) :
        translated[k].input \in statusMapKeys =>
            translated[k].output = JsString(translated[k].input)

C7_Witness ==
    /\ entry = "translate"
    /\ Len(translated) = 2
    /\ translated[1] = [input |-> "Kanryou", output |-> JsString("Kanryou")]
    /\ translated[2] = [input |-> "Backlog", output |-> JsString("Backlog")]

-----------------------------------------------------------------------------
(* src/reverse-sync.ts: the matcher. A title is a sequence of characters. *)

Digits == {"0", "1", "2", "3", "4", "5", "6", "7", "8", "9"}

\* \s of a regular expression: the space and the ideographic space U+3000
Whitespace == {" ", "U+3000"}

toLowerCase(c) ==
    IF \E i \in 1..Len(Uppers) : Uppers[i] = c
    THEN Lowers[CHOOSE i \in 1..Len(Uppers) : Uppers[i] = c]
    ELSE c

\* normalizeTitle's replacements of full-width characters: the full-width
\* colon U+FF1A, the full-width letter A U+FF21, the ideographic space
toHalfWidth(c) ==
    IF c = "U+FF1A" THEN ":"
    ELSE IF c = "U+FF21" THEN "A"
    ELSE IF c = "U+3000" THEN " "
    ELSE c

\* length of the run of characters of class C that starts at position n of t
RECURSIVE RunLength(_, _, _)
RunLength(t, n, C) ==
    IF n <= Len(t) /\ t[n] \in C THEN 1 + RunLength(t, n + 1, C) ELSE 0

\* /^PBI-(\d+):/i : the length of the group of digits, 0 when nothing matches
PbiDigits(t) ==
    IF Len(t) >= 4 /\ [k \in 1..4 |-> toLowerCase(t[k])] = <<"p", "b", "i", "-">>
    THEN LET d == RunLength(t, 5, Digits)
         IN  IF d > 0 /\ 5 + d <= Len(t) /\ t[5 + d] = ":" THEN d ELSE 0
    ELSE 0

\* extractPbiId returns null when the title has no prefix
NoPbiId == <<>>

\* as if the key were compared as a number: leading zeros dropped
extractPbiId_asNumber(title) ==
    IF PbiDigits(title) > 0
    THEN LET d == SubSeq(title, 5, 4 + PbiDigits(title))
             z == RunLength(d, 1, {"0"})
         IN  SubSeq(d, z + 1, Len(d))
    ELSE NoPbiId

extractPbiId(title) ==
    IF PbiDigits(title) > 0 THEN SubSeq(title, 5, 4 + PbiDigits(title)) ELSE NoPbiId

\* title.replace(/^PBI-\d+:\s*/i, '')
stripPbiPrefix(t) ==
    IF PbiDigits(t) > 0
    THEN LET from == 6 + PbiDigits(t)
         IN  SubSeq(t, from + RunLength(t, from, Whitespace), Len(t))
    ELSE t

\* normalizeTitle: strip the prefix, full-width to half-width, lower case,
\* and in the end remove all white space (which subsumes the trims and the
\* collapsing of runs of spaces done on the way)
normalizeTitle(title) ==
    LET stripped == stripPbiPrefix(title)
        lowered == [k \in 1..Len(stripped) |-> toLowerCase(toHalfWidth(stripped[k]))]
    IN  SelectSeq(lowered, LAMBDA c : c \notin Whitespace)

\* String.prototype.includes
includes(hay, needle) ==
    \E start \in 0..(Len(hay) - Len(needle)) :
        SubSeq(hay, start + 1, start + Len(needle)) = needle

\* Array.prototype.find over the indices in S: the first one, 0 for undefined
FirstIndex(S) == IF S = {} THEN 0 ELSE CHOOSE i \in S : \A j \in S : i <= j

\* matchByTitle: the first exact match; failing that, the first issue whose
\* normalized title contains, or is contained in, the page's
matchByTitle(notionTitle, issues) ==
    LET n == normalizeTitle(notionTitle)
        exactMatch == {i \in 1..Len(issues) : normalizeTitle(issues[i].title) = n}
        partialMatch ==
            {i \in 1..Len(issues) :
                LET g == normalizeTitle(issues[i].title)
                IN  IF Len(g) > Len(n) THEN includes(g, n)
                    ELSE IF Len(n) > Len(g) THEN includes(n, g)
                    ELSE FALSE}
    IN  IF exactMatch # {} THEN FirstIndex(exactMatch) ELSE FirstIndex(partialMatch)

NoMatch == [githubIssue |-> 0, matchType |-> "none", matchedBy |-> <<>>]

TitleMatch(notionTitle, issues) ==
    LET matchedIssue == matchByTitle(notionTitle, issues)
    IN  IF matchedIssue # 0
        THEN [githubIssue |-> matchedIssue, matchType |-> "title",
              matchedBy |-> normalizeTitle(notionTitle)]
        ELSE NoMatch

PbiMatch(notionTitle, issues) ==
    LET pbiId == extractPbiId(notionTitle)
        matchedIssue ==
            IF pbiId # NoPbiId
            THEN FirstIndex({i \in 1..Len(issues) : extractPbiId(issues[i].title) = pbiId})
            ELSE 0
    IN  IF matchedIssue # 0
        THEN [githubIssue |-> matchedIssue, matchType |-> "pbi-id",
              matchedBy |-> <<"P", "B", "I", "-">> \o pbiId]
        ELSE NoMatch

matchPage_titleFirst(notionPage, issues) ==
    IF TitleMatch(notionPage.title, issues).githubIssue # 0
    THEN TitleMatch(notionPage.title, issues)
    ELSE PbiMatch(notionPage.title, issues)

\* the body of matchNotionWithGitHub's loop: the PBI id first, then the title
matchPage(notionPage, issues) ==
    IF PbiMatch(notionPage.title, issues).githubIssue # 0
    THEN PbiMatch(notionPage.title, issues)
    ELSE TitleMatch(notionPage.title, issues)

matchNotionWithGitHub(pages, issues) ==
    [k \in 1..Len(pages) |-> matchPage(pages[k], issues)]

\* Titles
tFoo42 == <<"P", "B", "I", "-", "4", "2", ":", " ", "F", "o", "o">>
tBar42 == <<"p", "b", "i", "-", "4", "2", ":", "B", "a", "r">>
tFoo43 == <<"P", "B", "I", "-", "4", "3", ":", " ", "F", "o", "o">>
tFoo == <<"F", "O", "O", " ">>
tFooBar == <<"F", "o", "o", " ", "B", "a", "r">>
tZed == <<"Z", "e", "d">>
tFoo042 == <<"P", "B", "I", "-", "0", "4", "2", ":", " ", "F", "o", "o">>
tBar4 == <<"P", "B", "I", "-", "4", ":", "B", "a", "r">>
tMid42 == <<"Z", " ", "P", "B", "I", "-", "4", "2", ":", "B", "a", "r">>

Titles == {tFoo42, tBar42, tFoo43, tFoo, tFooBar, tZed, tFoo042, tBar4, tMid42}

Page(t) == [title |-> t, Status |-> "Chakushuchuu"]

\* the lists getIssues may return: up to n issues with titles in T
IssueLists(T, n) ==
    { [i \in 1..Len(ts) |-> [number |-> i, title |-> ts[i]]] :
        ts \in UNION { [1..k -> T] : k \in 0..n } }

Match ==
    /\ entry = "match"
    /\ matchResults = <<>>
    /\ matchResults' = matchNotionWithGitHub(notionPages, githubIssues)
    /\ UNCHANGED <<auxVars, entry, fwdVars, translated, notionPages, githubIssues, issueStatus, rev>>

InitMatch ==
    /\ entry = "match"
    /\ AuxIdle
    /\ FwdIdle
    /\ translated = <<>>
    /\ notionPages \in { <<Page(t)>> : t \in Titles }
    /\ githubIssues \in IssueLists(Titles, MaxCandidates)
    /\ issueStatus = [n \in 1..Len(githubIssues) |-> Null]
    /\ matchResults = <<>>
    /\ rev = <<>>

NextMatch == Match

SpecMatch == InitMatch /\ [][NextMatch]_vars

Matched == entry = "match" /\ matchResults # <<>>

SameKey(i) ==
    /\ extractPbiId(notionPages[1].title) # NoPbiId
    /\ extractPbiId(githubIssues[i].title) = extractPbiId(notionPages[1].title)

\* C10: when the page's title carries a key and some candidate carries the
\* same key, the first such candidate is returned, tagged pbi-id, whatever
\* the texts are.
C10_KeyBeatsText ==
    (Matched /\ \E i \in 1..Len(githubIssues) : SameKey(i)) =>
        /\ matchResults[1].matchType = "pbi-id"
        /\ SameKey(matchResults[1].githubIssue)
        /\ \A j \in 1..(matchResults[1].githubIssue - 1) : ~SameKey(j)

\* "PBI-42: Foo" against <<"FOO ", "pbi-42:Bar">>: the second is returned
C10_Witness ==
    /\ Matched
    /\ notionPages[1].title = tFoo42
    /\ githubIssues = <<[number |-> 1, title |-> tFoo], [number |-> 2, title |-> tBar42]>>
    /\ normalizeTitle(tFoo) = normalizeTitle(tFoo42)
    /\ normalizeTitle(tBar42) # normalizeTitle(tFoo42)
    /\ matchResults[1] = [githubIssue |-> 2, matchType |-> "pbi-id",
                          matchedBy |-> <<"P", "B", "I", "-", "4", "2">>]

ExactTitle(i) ==
    normalizeTitle(githubIssues[i].title) = normalizeTitle(notionPages[1].title)

\* C11: when no candidate carries the page's key, the first candidate whose
\* normalized title equals the page's is returned, tagged title; when none
\* is equal the result is no match, also when a candidate's normalized
\* title contains the page's or is contained in it.
C11_ExactTitleOnly ==
    (Matched /\ ~\E i \in 1..Len(githubIssues) : SameKey(i)) =>
        IF \E i \in 1..Len(githubIssues) : ExactTitle(i)
        THEN /\ matchResults[1].matchType = "title"
             /\ ExactTitle(matchResults[1].githubIssue)
             /\ \A j \in 1..(matchResults[1].githubIssue - 1) : ~ExactTitle(j)
        ELSE matchResults[1] = NoMatch

-----------------------------------------------------------------------------
(* src/reverse-sync.ts: reverseSyncNotionToGitHub. The dry run (TRUE) and *)
(* the live run (FALSE) each work on their own copy of the same fixture;  *)
(* the dry run is taken first.                                            *)

RevIssueTitles == {tBar42, tFoo}
RevStatusValues == {Null, "Chakushuchuu", "Backlog", "constructor"}

\* the pages of the database: two in progress, one already Kanryou
RevPages == {Page(tFoo42), Page(tFoo), [title |-> tZed, Status |-> "Kanryou"]}

\* getNotionPagesForReverseSync: the pages whose Status is none of
\* 'Not started', Kanryou, Mukou; id is the page's place in the database
pagesForReverseSync(pages) ==
    SelectSeq([i \in 1..Len(pages) |-> [id |-> i, title |-> pages[i].title,
                                         Status |-> pages[i].Status]],
              LAMBDA pg : pg.Status \notin {NotStarted, "Kanryou", "Mukou"})

issuesStatusWrite_always(dryRun) == TRUE

\* if (dryRun) { log } else { await updateNotionPageStatus(...) }
issuesStatusWrite(dryRun) == ~dryRun

updatedAfterBranch_liveOnly(dryRun) == IF dryRun THEN 0 ELSE 1

\* updatedCount++ follows the if (dryRun) ... else ..., for both
updatedAfterBranch(dryRun) == 1

RevRunStart ==
    [pc |-> "start", pages |-> <<>>, results |-> <<>>, i |-> 0,
     matchedCount |-> 0, updatedCount |-> 0, skippedCount |-> 0,
     unmatchedPages |-> <<>>, wouldUpdate |-> <<>>, reads |-> <<>>, writes |-> <<>>,
     dest |-> Statuses(notionPages), faults |-> 0]

\* the dry run first, then the live run
Turn(dryRun) == dryRun \/ rev[TRUE].pc \in {"done", "exit"}

\* a network call succeeds or fails; at most MaxRevFaults calls fail at will
RevFaults == rev[TRUE].faults + rev[FALSE].faults

RevOutcomes == IF RevFaults < MaxRevFaults THEN {TRUE, FALSE} ELSE {TRUE}

Fault(ok) == IF ok THEN 0 ELSE 1

\* a failure outside the loop reaches the outer catch: process.exit(1)
RevFetchPages(dryRun) ==
    /\ entry = "reverse"
    /\ Turn(dryRun)
    /\ rev[dryRun].pc = "start"
    /\ \E ok \in RevOutcomes :
        rev' = [rev EXCEPT ![dryRun] =
                  [@ EXCEPT !.pc = IF ok THEN "issues" ELSE "exit",
                            !.pages = IF ok THEN pagesForReverseSync(notionPages) ELSE <<>>,
                            !.reads = Append(@, [op |-> "queryPages", arg |-> 0]),
                            !.faults = @ + Fault(ok)]]
    /\ UNCHANGED <<auxVars, entry, fwdVars, translated, notionPages, githubIssues, issueStatus,
                   matchResults>>

\* getIssues, then matchNotionWithGitHub
RevFetchIssues(dryRun) ==
    /\ entry = "reverse"
    /\ Turn(dryRun)
    /\ rev[dryRun].pc = "issues"
    /\ \E ok \in RevOutcomes :
        rev' = [rev EXCEPT ![dryRun] =
                  [@ EXCEPT !.pc = IF ok THEN "process" ELSE "exit",
                            !.results = IF ok
                                        THEN matchNotionWithGitHub(rev[dryRun].pages, githubIssues)
                                        ELSE <<>>,
                            !.i = IF ok THEN 1 ELSE 0,
                            !.reads = Append(@, [op |-> "getIssues", arg |-> 0]),
                            !.faults = @ + Fault(ok)]]
    /\ UNCHANGED <<auxVars, entry, fwdVars, translated, notionPages, githubIssues, issueStatus,
                   matchResults>>

skippedInCatch_none(caught) == 0

\* catch (error) { ...; skippedCount++ }
skippedInCatch(caught) == IF caught THEN 1 ELSE 0

afterRound_errorEndsLoop(i, n, caught) == IF caught THEN n + 1 ELSE i + 1

\* the try / catch is inside the body of for (const result of matchResults):
\* after a caught error the loop goes on with the next result
afterRound(i, n, caught) == i + 1

\* one round of the loop over matchResults, for a result with an issue:
\* getProjectStatus (null when it fails), translate, compare, write or log
processMatched(st, dryRun, fetchOk, writeOk) ==
    LET result == st.results[st.i]
        notionPage == st.pages[st.i]
        number == githubIssues[result.githubIssue].number
        fetched == IF fetchOk THEN issueStatus[number] ELSE Null
        currentNotionStatus == notionPage.Status
        targetNotionStatus == mapGitHubStatusToNotion(fetched)
        differs == hasStatus(fetched) /\ JsString(currentNotionStatus) # targetNotionStatus
        writes == differs /\ issuesStatusWrite(dryRun)
        written == writes /\ writeOk
        thrown_ == writes /\ ~writeOk
    IN  [st EXCEPT
           !.i = afterRound(st.i, Len(st.results), thrown_),
           !.matchedCount = @ + 1,
           !.reads = Append(@, [op |-> "getProjectStatus", arg |-> number]),
           !.writes = IF writes
                      THEN Append(@, [page |-> notionPage.id, status |-> targetNotionStatus,
                                      ok |-> writeOk])
                      ELSE @,
           !.dest = IF written THEN [@ EXCEPT ![notionPage.id] = targetNotionStatus.val] ELSE @,
           !.wouldUpdate = IF differs /\ dryRun THEN Append(@, notionPage.id) ELSE @,
           !.updatedCount = IF differs /\ ~thrown_ THEN @ + updatedAfterBranch(dryRun) ELSE @,
           !.skippedCount = IF ~differs THEN @ + 1 ELSE @ + skippedInCatch(thrown_),
           !.faults = @ + Fault(fetchOk) + (IF thrown_ THEN 1 ELSE 0)]

\* whether the status write of this round is issued, and with which value
RoundWrites(st, dryRun, fetchOk) ==
    LET result == st.results[st.i]
        fetched == IF fetchOk THEN issueStatus[githubIssues[result.githubIssue].number]
                   ELSE Null
    IN  /\ hasStatus(fetched)
        /\ JsString(st.pages[st.i].Status) # mapGitHubStatusToNotion(fetched)
        /\ issuesStatusWrite(dryRun)

RevProcessMatched(dryRun) ==
    /\ entry = "reverse"
    /\ Turn(dryRun)
    /\ rev[dryRun].pc = "process"
    /\ rev[dryRun].i <= Len(rev[dryRun].results)
    /\ rev[dryRun].results[rev[dryRun].i].githubIssue # 0
    /\ LET st == rev[dryRun]
       IN  \E fetchOk \in RevOutcomes, writeOk \in BOOLEAN :
            LET fetched == IF fetchOk
                           THEN issueStatus[githubIssues[st.results[st.i].githubIssue].number]
                           ELSE Null
            IN  /\ ~RoundWrites(st, dryRun, fetchOk) => writeOk
                \* Notion rejects a status whose name is not a string
                /\ (RoundWrites(st, dryRun, fetchOk)
                      /\ mapGitHubStatusToNotion(fetched).type # "string") => ~writeOk
                /\ (RoundWrites(st, dryRun, fetchOk)
                      /\ mapGitHubStatusToNotion(fetched).type = "string" /\ ~writeOk)
                        => RevFaults + Fault(fetchOk) < MaxRevFaults
                /\ rev' = [rev EXCEPT ![dryRun] = processMatched(st, dryRun, fetchOk, writeOk)]
    /\ UNCHANGED <<auxVars, entry, fwdVars, translated, notionPages, githubIssues, issueStatus,
                   matchResults>>

\* a result without an issue: unmatchedPages.push(result.notionPage)
RevProcessUnmatched(dryRun) ==
    /\ entry = "reverse"
    /\ Turn(dryRun)
    /\ rev[dryRun].pc = "process"
    /\ rev[dryRun].i <= Len(rev[dryRun].results)
    /\ rev[dryRun].results[rev[dryRun].i].githubIssue = 0
    /\ rev' = [rev EXCEPT ![dryRun] =
                 [@ EXCEPT !.i = @ + 1,
                           !.unmatchedPages = Append(@, rev[dryRun].pages[rev[dryRun].i].id)]]
    /\ UNCHANGED <<auxVars, entry, fwdVars, translated, notionPages, githubIssues, issueStatus,
                   matchResults>>

\* the loop is over: the summary is printed
RevSummary(dryRun) ==
    /\ entry = "reverse"
    /\ Turn(dryRun)
    /\ rev[dryRun].pc = "process"
    /\ rev[dryRun].i > Len(rev[dryRun].results)
    /\ rev' = [rev EXCEPT ![dryRun].pc = "done"]
    /\ UNCHANGED <<auxVars, entry, fwdVars, translated, notionPages, githubIssues, issueStatus,
                   matchResults>>

InitRev ==
    /\ entry = "reverse"
    /\ AuxIdle
    /\ FwdIdle
    /\ translated = <<>>
    /\ notionPages \in UNION { [1..k -> RevPages] : k \in 1..MaxPages }
    /\ githubIssues \in IssueLists(RevIssueTitles, MaxIssues)
    /\ issueStatus \in [1..Len(githubIssues) -> RevStatusValues]
    /\ matchResults = <<>>
    /\ rev = [dryRun \in BOOLEAN |-> RevRunStart]

NextRev ==
    \E dryRun \in BOOLEAN :
        \/ RevFetchPages(dryRun)
        \/ RevFetchIssues(dryRun)
        \/ RevProcessMatched(dryRun)
        \/ RevProcessUnmatched(dryRun)
        \/ RevSummary(dryRun)

SpecRev == InitRev /\ [][NextRev]_vars

\* C8: the dry run issues no status write, and leaves the Status of every
\* page as it was, also for matched pages whose translated status differs.
C8_DryRunWritesNothing ==
    entry = "reverse" =>
        /\ rev[TRUE].writes = <<>>
        /\ rev[TRUE].dest = Statuses(notionPages)

C8_Witness ==
    /\ entry = "reverse"
    /\ rev[TRUE].pc = "done"
    /\ rev[TRUE].updatedCount = 2
    /\ rev[TRUE].wouldUpdate = <<1, 2>>
    /\ rev[TRUE].dest = <<"Chakushuchuu", "Chakushuchuu">>

BothDoneWithoutFailure ==
    /\ entry = "reverse"
    /\ \A dryRun \in BOOLEAN : rev[dryRun].pc = "done" /\ rev[dryRun].faults = 0

\* C9: without a failing call the dry run and the live run issue the same
\* reads, get the same match results and the same counts; only the live run
\* writes, and it writes the pages the dry run reported.
C9_DryRunFaithful ==
    BothDoneWithoutFailure =>
        /\ rev[TRUE].reads = rev[FALSE].reads
        /\ rev[TRUE].results = rev[FALSE].results
        /\ rev[TRUE].matchedCount = rev[FALSE].matchedCount
        /\ rev[TRUE].updatedCount = rev[FALSE].updatedCount
        /\ rev[TRUE].skippedCount = rev[FALSE].skippedCount
        /\ rev[TRUE].unmatchedPages = rev[FALSE].unmatchedPages
        /\ rev[TRUE].writes = <<>>
        /\ [k \in 1..Len(rev[FALSE].writes) |-> rev[FALSE].writes[k].page] = rev[TRUE].wouldUpdate

C9_Witness ==
    /\ BothDoneWithoutFailure
    /\ rev[FALSE].updatedCount = 1
    /\ Len(rev[FALSE].unmatchedPages) = 1
    /\ Len(rev[FALSE].writes) = 1
    /\ rev[FALSE].dest # Statuses(notionPages)

-----------------------------------------------------------------------------
(* src/utils/retry.ts: retryWithBackoff with DEFAULT_OPTIONS *)

maxRetries_oneMore == 2 + 1

maxRetries == 2
baseDelay == 500
maxDelay == 2000
retryableStatuses == {409, 429, 500, 502, 503, 504}

\* error.response?.status of an error without a response
NoStatus == 0

\* the statuses with which an invocation of the operation may reject
FailureStatuses == {NoStatus, 400, 409, 429, 500, 503}

\* what the k-th invocation of the operation may do: resolve with a value,
\* or reject with an error of its own
OperationOutcomes(k) ==
    {[ok |-> TRUE, status |-> 200, id |-> k]}
        \cup {[ok |-> FALSE, status |-> st, id |-> k] : st \in FailureStatuses}

Min(a, b) == IF a <= b THEN a ELSE b

RECURSIVE Pow2(_)
Pow2(n) == IF n = 0 THEN 1 ELSE 2 * Pow2(n - 1)

retryDelay_fromOne(attempt) == Min(baseDelay * Pow2(attempt + 1), maxDelay)

\* Math.min(opts.baseDelay * Math.pow(2, attempt), opts.maxDelay), where
\* attempt is the index of the attempt that has just failed
retryDelay(attempt) == Min(baseDelay * Pow2(attempt), maxDelay)

isRetryableError_any(error) == TRUE

\* error.response?.status && opts.retryableStatuses?.includes(status)
isRetryableError(error) ==
    error.status # NoStatus /\ error.status \in retryableStatuses

thrownAfterBudget_first(errors) == errors[1]

\* throw lastError: the error caught last
thrownAfterBudget(errors) == errors[Len(errors)]

\* the body of the loop after the operation has settled
retryStep(attempt, outcome) ==
    IF outcome.ok THEN "return"
    ELSE IF attempt = maxRetries THEN "break"
    ELSE IF ~isRetryableError(outcome) THEN "throw"
    ELSE "wait"

NoResult == [ok |-> FALSE, status |-> NoStatus, id |-> 0]

\* the calls made to the destination: the database query of
\* searchNotionByField, the repair of verifyAndFixNotionId, createNotionPage,
\* setNotionPageId, updateNotionPage, updateNotionPageStatus
DestinationReads == {"query"}
DestinationWrites == {"fixID", "create", "setId", "update", "patchStatus"}

viaRetry_none(op) == FALSE

\* the calls whose request is handed to retryWithBackoff
viaRetry(op) == op \in {"update", "patchStatus"}

\* the calls whose own catch block swallows the error
swallowsError(op) == op \in {"query", "fixID"}

RetryStart ==
    [pc |-> "call", attempt |-> 0, outcomes |-> <<>>, delays |-> <<>>, result |-> NoResult]

\* await operation(), the catch block up to the delay
RetryInvoke ==
    /\ entry = "retry" \/ (entry = "writes" /\ viaRetry(callOp))
    /\ retry.pc = "call"
    /\ \E outcome \in OperationOutcomes(Len(retry.outcomes) + 1) :
        LET step == retryStep(retry.attempt, outcome)
            errors == SelectSeq(Append(retry.outcomes, outcome), LAMBDA o : ~o.ok)
        IN  retry' = [retry EXCEPT
                        !.outcomes = Append(@, outcome),
                        !.pc = CASE step = "return" -> "returned"
                                 [] step = "wait" -> "wait"
                                 [] OTHER -> "threw",
                        !.result = CASE step = "return" -> outcome
                                     [] step = "throw" -> outcome
                                     [] step = "break" -> thrownAfterBudget(errors)
                                     [] OTHER -> @]
    /\ UNCHANGED <<entry, fwdVars, nonFwd, callOp, boot, statusQuery>>

\* await new Promise(resolve => setTimeout(resolve, delay)); attempt++
RetryWait ==
    /\ entry \in {"retry", "retried"} \/ (entry = "writes" /\ viaRetry(callOp))
    /\ retry.pc = "wait"
    /\ retry' = [retry EXCEPT
                    !.delays = Append(@, retryDelay(retry.attempt)),
                    !.attempt = @ + 1,
                    !.pc = IF retry.attempt + 1 <= maxRetries THEN "call" ELSE "threw",
                    !.result = IF retry.attempt + 1 <= maxRetries THEN @
                               ELSE thrownAfterBudget(SelectSeq(retry.outcomes,
                                                                LAMBDA o : ~o.ok))]
    /\ UNCHANGED <<entry, fwdVars, nonFwd, callOp, boot, statusQuery>>

InitRetry ==
    /\ entry = "retry"
    /\ FwdIdle
    /\ translated = <<>>
    /\ notionPages = <<>>
    /\ githubIssues = <<>>
    /\ issueStatus = <<>>
    /\ matchResults = <<>>
    /\ rev = <<>>
    /\ retry = RetryStart
    /\ callOp = "none"
    /\ boot = <<>>
    /\ statusQuery = <<>>

NextRetry ==
    \/ RetryInvoke
    \/ RetryWait

SpecRetry == InitRetry /\ [][NextRetry]_vars

\* every invocation of the operation settles, and so does every delay
SpecRetryFair == SpecRetry /\ WF_vars(NextRetry)

RetrySettled == entry = "retry" /\ retry.pc \in {"returned", "threw"}

\* the operation is invoked at most three times, and not again after it
\* has resolved: retryWithBackoff returns the value of that invocation
AtMostThreeInvocations ==
    /\ Len(retry.outcomes) <= 3
    /\ \A k \in 1..Len(retry.outcomes) :
          retry.outcomes[k].ok =>
              /\ k = Len(retry.outcomes)
              /\ retry.pc = "returned"
              /\ retry.result = retry.outcomes[k]

\* C12: with the default options the operation is invoked at most 3 times,
\* the value of the first invocation that resolves is returned without a
\* further invocation, and the call settles once the invocations settle.
C12_AtMostThreeAttempts == [](entry = "retry" => AtMostThreeInvocations) /\ <>RetrySettled

C12_Witness ==
    /\ RetrySettled
    /\ retry.pc = "returned"
    /\ Len(retry.outcomes) = 3
    /\ retry.result.id = 3

\* C13 as stated: the delay before attempt n (n >= 1) is
\* min(500 * 2^n, 2000) ms: 1000 ms before the first retry, 2000 ms before
\* the second.
C13_DelayDoublesFromOne ==
    entry = "retry" =>
        \A n \in 1..Len(retry.delays) : retry.delays[n] = Min(500 * Pow2(n), 2000)

\* C13 amended: the delay before attempt n (n >= 1) is
\* min(500 * 2^(n-1), 2000) ms: 500 ms before the first retry, 1000 ms
\* before the second.
C13_DelayDoublesFromZero ==
    entry = "retry" =>
        /\ \A n \in 1..Len(retry.delays) : retry.delays[n] = Min(500 * Pow2(n - 1), 2000)
        /\ retry.delays \in {<<>>, <<500>>, <<500, 1000>>}

C13_Witness ==
    /\ entry = "retry"
    /\ retry.pc = "call"
    /\ retry.attempt = 2
    /\ retry.delays = <<500, 1000>>

\* C14: an invocation that rejects is followed by another invocation only
\* if its error carries a status in {409, 429, 500, 502, 503, 504}; any
\* other error, also one without a status, is thrown at once: no delay and
\* no invocation follows it.
C14_OnlyRetryableRetried ==
    entry = "retry" =>
        \A k \in 1..Len(retry.outcomes) :
            LET o == retry.outcomes[k]
            IN  /\ k < Len(retry.outcomes) =>
                      ~o.ok /\ o.status \in {409, 429, 500, 502, 503, 504}
                /\ (~o.ok /\ o.status \notin {409, 429, 500, 502, 503, 504}) =>
                      /\ k = Len(retry.outcomes)
                      /\ retry.pc = "threw"
                      /\ retry.result = o
                      /\ Len(retry.delays) = k - 1

C14_Witness ==
    /\ entry = "retry"
    /\ retry.pc = "threw"
    /\ Len(retry.outcomes) = 2
    /\ retry.outcomes[1].status = 503
    /\ retry.outcomes[2].status = NoStatus
    /\ retry.result = retry.outcomes[2]
    /\ Len(retry.delays) = 1

AllAttemptsRetryable ==
    /\ RetrySettled
    /\ \A k \in 1..Len(retry.outcomes) :
          ~retry.outcomes[k].ok /\ retry.outcomes[k].status \in {409, 429, 500, 502, 503, 504}

\* C15: when every attempt rejects with a retryable status, what
\* retryWithBackoff throws is the error of the last attempt itself, not the
\* error of an earlier attempt and not another value.
C15_LastErrorRethrown ==
    AllAttemptsRetryable =>
        /\ retry.pc = "threw"
        /\ Len(retry.outcomes) = 3
        /\ retry.result = retry.outcomes[3]

C15_Witness ==
    /\ AllAttemptsRetryable
    /\ \A k \in 1..3 : retry.outcomes[k].status = 429
    /\ retry.result = [ok |-> FALSE, status |-> 429, id |-> 3]

-----------------------------------------------------------------------------
(* The calls to the destination, each with the retry it is wrapped in or not *)

\* a call whose request is awaited directly: it settles with the request
DirectInvoke ==
    /\ entry = "writes"
    /\ ~viaRetry(callOp)
    /\ retry.pc = "call"
    /\ \E outcome \in OperationOutcomes(Len(retry.outcomes) + 1) :
        retry' = [retry EXCEPT
                    !.outcomes = Append(@, outcome),
                    !.pc = IF outcome.ok \/ swallowsError(callOp) THEN "returned" ELSE "threw",
                    !.result = outcome]
    /\ UNCHANGED <<entry, fwdVars, nonFwd, callOp, boot, statusQuery>>

InitWrites ==
    /\ entry = "writes"
    /\ FwdIdle
    /\ translated = <<>>
    /\ notionPages = <<>>
    /\ githubIssues = <<>>
    /\ issueStatus = <<>>
    /\ matchResults = <<>>
    /\ rev = <<>>
    /\ retry = RetryStart
    /\ callOp \in DestinationReads \cup DestinationWrites
    /\ boot = <<>>
    /\ statusQuery = <<>>

NextWrites ==
    \/ DirectInvoke
    \/ RetryInvoke
    \/ RetryWait

SpecWrites == InitWrites /\ [][NextWrites]_vars

\* the request rejected with a retryable status and was not issued again
SettledAfterOneRetryableFailure ==
    /\ retry.pc \in {"returned", "threw"}
    /\ Len(retry.outcomes) = 1
    /\ ~retry.outcomes[1].ok
    /\ retry.outcomes[1].status \in {409, 429, 500, 502, 503, 504}

\* C17: every write to the destination (create, update, set ID, repair of
\* the ID, status patch) goes through retryWithBackoff, so a request that
\* rejects with a retryable status is issued again; no read does, so a
\* query is issued once.
C17_WritesRetriedReadsNot ==
    entry = "writes" =>
        /\ callOp \in {"create", "update", "setId", "fixID", "patchStatus"}
              => ~SettledAfterOneRetryableFailure
        /\ callOp = "query" => Len(retry.outcomes) <= 1

-----------------------------------------------------------------------------
(* The start of a run: main of the forward run, reverseSyncNotionToGitHub *)

\* core.getInput gives "" for an input that is not set; process.env gives
\* undefined for a variable that is not set: both are falsy
Unset == ""
RepoValues == {Unset, "bad", "o/r"}
InputNames == {"repo", "NOTION_API_KEY", "NOTION_DATABASE_ID", "PROJECT_TOKEN", "GITHUB_TOKEN"}
EnvNames == {"GITHUB_REPOSITORY", "NOTION_API_KEY", "NOTION_DATABASE_ID", "PROJECT_TOKEN", "GITHUB_TOKEN"}
ValuesOf(name) == IF name \in {"repo", "GITHUB_REPOSITORY"} THEN RepoValues ELSE {Unset, "v"}

Inputs == {f \in [InputNames -> RepoValues \cup {"v"}] : \A n \in InputNames : f[n] \in ValuesOf(n)}
Envs == {f \in [EnvNames -> RepoValues \cup {"v"}] : \A n \in EnvNames : f[n] \in ValuesOf(n)}

\* a || b of JavaScript on strings
Or(a, b) == IF a # Unset THEN a ELSE b

\* getActionConfig: the forward run reads the inputs only
getActionConfig(input) ==
    [repo             |-> input["repo"],
     notionToken      |-> input["NOTION_API_KEY"],
     notionDatabaseId |-> input["NOTION_DATABASE_ID"],
     githubToken      |-> Or(input["PROJECT_TOKEN"], input["GITHUB_TOKEN"])]

validateConfig_noDatabaseId(config) ==
    /\ config.repo # Unset
    /\ config.notionToken # Unset

\* validateConfig: TRUE when it does not throw
validateConfig(config) ==
    /\ config.repo # Unset
    /\ config.notionToken # Unset
    /\ config.notionDatabaseId # Unset

\* parseRepositoryInfo: TRUE when it does not throw
parseRepositoryInfo(repo) == repo = "o/r"

\* the reverse run reads each input and falls back to the environment
reverseConfig(input, env) ==
    [repo             |-> Or(input["repo"], env["GITHUB_REPOSITORY"]),
     notionToken      |-> Or(input["NOTION_API_KEY"], env["NOTION_API_KEY"]),
     notionDatabaseId |-> Or(input["NOTION_DATABASE_ID"], env["NOTION_DATABASE_ID"]),
     githubToken      |-> Or(Or(input["PROJECT_TOKEN"], input["GITHUB_TOKEN"]),
                             Or(env["PROJECT_TOKEN"], env["GITHUB_TOKEN"]))]

reverseConfigComplete(config) ==
    /\ config.repo # Unset
    /\ config.notionToken # Unset
    /\ config.notionDatabaseId # Unset
    /\ config.githubToken # Unset

\* main, up to logConfig
MainGetActionConfig ==
    /\ entry = "main"
    /\ boot.run = "forward"
    /\ boot.pc = "config"
    /\ LET config == getActionConfig(boot.input)
       IN  boot' = [boot EXCEPT !.pc =
                IF validateConfig(config) /\ parseRepositoryInfo(config.repo)
                THEN "fetch" ELSE "failed"]
    /\ UNCHANGED <<entry, fwdVars, nonFwd, retry, callOp, statusQuery>>

\* main: fetchItemsBasedOnEvent asks GitHub for the items
MainFetchItems ==
    /\ entry = "main"
    /\ boot.run = "forward"
    /\ boot.pc = "fetch"
    /\ \E ok \in BOOLEAN :
        boot' = [boot EXCEPT !.requests = Append(@, "source"),
                             !.pc = IF ok THEN "sync" ELSE "failed"]
    /\ UNCHANGED <<entry, fwdVars, nonFwd, retry, callOp, statusQuery>>

\* main: syncAllItemsToNotion reads and writes the database
MainSyncAllItems ==
    /\ entry = "main"
    /\ boot.run = "forward"
    /\ boot.pc = "sync"
    /\ \E ok \in BOOLEAN :
        boot' = [boot EXCEPT !.requests = Append(@, "destination"),
                             !.pc = IF ok THEN "done" ELSE "failed"]
    /\ UNCHANGED <<entry, fwdVars, nonFwd, retry, callOp, statusQuery>>

\* reverseSyncNotionToGitHub, up to the check of the configuration
ReverseGetConfig ==
    /\ entry = "main"
    /\ boot.run = "reverse"
    /\ boot.pc = "config"
    /\ boot' = [boot EXCEPT !.pc =
            IF reverseConfigComplete(reverseConfig(boot.input, boot.env))
            THEN "pages" ELSE "failed"]
    /\ UNCHANGED <<entry, fwdVars, nonFwd, retry, callOp, statusQuery>>

\* reverseSyncNotionToGitHub: getNotionPagesForReverseSync
ReverseGetPages ==
    /\ entry = "main"
    /\ boot.run = "reverse"
    /\ boot.pc = "pages"
    /\ \E ok \in BOOLEAN :
        boot' = [boot EXCEPT !.requests = Append(@, "destination"),
                             !.pc = IF ok THEN "issues" ELSE "failed"]
    /\ UNCHANGED <<entry, fwdVars, nonFwd, retry, callOp, statusQuery>>

\* reverseSyncNotionToGitHub: getIssues
ReverseGetIssues ==
    /\ entry = "main"
    /\ boot.run = "reverse"
    /\ boot.pc = "issues"
    /\ \E ok \in BOOLEAN :
        boot' = [boot EXCEPT !.requests = Append(@, "source"),
                             !.pc = IF ok THEN "done" ELSE "failed"]
    /\ UNCHANGED <<entry, fwdVars, nonFwd, retry, callOp, statusQuery>>

InitMain ==
    /\ entry = "main"
    /\ FwdIdle
    /\ translated = <<>>
    /\ notionPages = <<>>
    /\ githubIssues = <<>>
    /\ issueStatus = <<>>
    /\ matchResults = <<>>
    /\ rev = <<>>
    /\ retry = <<>>
    /\ callOp = "none"
    /\ statusQuery = <<>>
    /\ \E r \in {"forward", "reverse"}, input \in Inputs, env \in Envs :
        boot = [run |-> r, input |-> input, env |-> env, pc |-> "config", requests |-> <<>>]

NextMain ==
    \/ MainGetActionConfig
    \/ MainFetchItems
    \/ MainSyncAllItems
    \/ ReverseGetConfig
    \/ ReverseGetPages
    \/ ReverseGetIssues

SpecMain == InitMain /\ [][NextMain]_vars

\* a required input of the run is missing
RequiredInputMissing ==
    IF boot.run = "forward"
    THEN \E n \in {"repo", "NOTION_API_KEY", "NOTION_DATABASE_ID"} : boot.input[n] = Unset
    ELSE \/ boot.input["repo"] = Unset /\ boot.env["GITHUB_REPOSITORY"] = Unset
         \/ boot.input["NOTION_API_KEY"] = Unset /\ boot.env["NOTION_API_KEY"] = Unset
         \/ boot.input["NOTION_DATABASE_ID"] = Unset /\ boot.env["NOTION_DATABASE_ID"] = Unset
         \/ \A n \in {"PROJECT_TOKEN", "GITHUB_TOKEN"} :
                boot.input[n] = Unset /\ boot.env[n] = Unset

\* C18: a run with a required input missing fails before any source item is
\* fetched and before any destination read or write is issued.
C18_MissingInputFailsFirst ==
    (entry = "main" /\ RequiredInputMissing) =>
        /\ boot.requests = <<>>
        /\ boot.pc \in {"config", "failed"}

C18_Witness ==
    /\ entry = "main"
    /\ RequiredInputMissing
    /\ boot.pc = "failed"
    /\ boot.input["repo"] = "o/r"
    /\ boot.input["NOTION_API_KEY"] # Unset
    /\ boot.input["NOTION_DATABASE_ID"] = Unset

-----------------------------------------------------------------------------
(* The order of the lookup strategies of findExistingNotionPage *)

StrategyOrder == <<"queryID", "queryNumber", "queryURL">>

StrategyField(op) ==
    IF op = "queryID" THEN "ID" ELSE IF op = "queryNumber" THEN "Number" ELSE "URL"

StrategyValue(op) ==
    IF op = "queryID" THEN Item.id
    ELSE IF op = "queryNumber" THEN Item.number ELSE Item.html_url

\* the queries issued so far by the running findExistingNotionPage
QueriesIssued ==
    SelectSeq(trace, LAMBDA c : c.op \in {"queryID", "queryNumber", "queryURL"})

\* what the k-th query issued gave, in a database the lookup has not written
Yield(k) ==
    searchNotionByField(db, StrategyField(QueriesIssued[k].op),
                        StrategyValue(QueriesIssued[k].op), QueriesIssued[k].ok)

InLookup == entry \in {"batch", "resolve"} /\ pc \in {"queryID", "queryNumber", "queryURL", "verify"}

LookupReturned == entry \in {"batch", "resolve"} /\ pc \in {"returned", "update", "create"}

\* C19: findExistingNotionPage queries by ID, then Number, then URL; after a
\* non-empty result no later query is issued and the page returned is the
\* first element of that result; null is returned only after all three
\* queries yielded no result.
C19_LookupOrder ==
    /\ (InLookup \/ LookupReturned) =>
          Ops(QueriesIssued) = SubSeq(StrategyOrder, 1, Len(QueriesIssued))
    /\ (entry \in {"batch", "resolve"} /\ pc = "verify") =>
          /\ QueriesIssued # <<>>
          /\ \A k \in 1..(Len(QueriesIssued) - 1) : Yield(k) = <<>>
          /\ Yield(Len(QueriesIssued)) # <<>>
          /\ page = Yield(Len(QueriesIssued))[1]
          /\ foundBy = StrategyField(QueriesIssued[Len(QueriesIssued)].op)
    /\ (LookupReturned /\ page # 0) =>
          /\ QueriesIssued # <<>>
          /\ foundBy = StrategyField(QueriesIssued[Len(QueriesIssued)].op)
          /\ page = Yield(Len(QueriesIssued))[1]
    /\ (LookupReturned /\ page = 0) =>
          /\ Ops(QueriesIssued) = StrategyOrder
          /\ \A k \in 1..3 : Yield(k) = <<>>

\* the Number query gave two pages and the first of them was returned
C19_Witness ==
    /\ LookupReturned
    /\ page # 0
    /\ Ops(QueriesIssued) = <<"queryID", "queryNumber">>
    /\ Len(Yield(2)) = 2
    /\ page = Yield(2)[1]

-----------------------------------------------------------------------------
(* A query of findExistingNotionPage that fails *)

\* the k-th query of the lookup failed
QueryFailed(k) == k \in 1..Len(QueriesIssued) /\ ~QueriesIssued[k].ok

\* C20: a failed query counts as an empty result: the lookup does not throw
\* (the item fails only at a write), the failed query finds no page, and the
\* strategies after it are still queried in order.
C20_QueryFailureIsEmpty ==
    entry \in {"batch", "resolve"} =>
        /\ pc = "thrown" =>
              trace[Len(trace)].op \notin {"queryID", "queryNumber", "queryURL", "fixID"}
        /\ \A k \in 1..Len(QueriesIssued) : QueryFailed(k) =>
              /\ k < Len(QueriesIssued) => QueriesIssued[k + 1].op = StrategyOrder[k + 1]
              /\ (k = Len(QueriesIssued) /\ k < 3) => pc = StrategyOrder[k + 1]
              /\ (k = Len(QueriesIssued) /\ k = 3) =>
                    /\ \A j \in 1..Len(trace) : trace[j].op # "fixID"
                    /\ Len(trace) = 3 => (pc = afterLookup(0) /\ page = 0)
                    /\ Len(trace) > 3 => trace[4].op = "create"

\* the query by ID failed although a page holds the item's ID, and the
\* lookup went on to find the page by Number
C20_Witness ==
    /\ LookupReturned
    /\ Ops(QueriesIssued) = <<"queryID", "queryNumber">>
    /\ QueryFailed(1)
    /\ searchNotionByField(db, "ID", Item.id, TRUE) # <<>>
    /\ foundBy = "Number"
    /\ page # 0

-----------------------------------------------------------------------------
(* The repair of the ID field inside findExistingNotionPage *)

RepairsIn(t) == Len(SelectSeq(t, LAMBDA c : c.op = "fixID"))

\* the lookup holds a page found by Number or URL whose ID is not the item's
StalePageFound ==
    /\ entry \in {"batch", "resolve"}
    /\ pc = "verify"
    /\ foundBy \in {"Number", "URL"}
    /\ db[page].ID # Item.id

\* C21: a page found by Number or URL whose ID differs from the item's id
\* gets exactly one write that sets the ID before the lookup returns; when
\* the write fails nothing is thrown and the same page is returned.
C21_RepairOnceAndSwallow ==
    /\ [](entry = "resolve" => RepairsIn(trace) <= 1)
    /\ [][StalePageFound =>
            /\ trace' = Append(trace, Call("fixID", trace'[Len(trace')].ok))
            /\ db' = IF trace'[Len(trace')].ok
                     THEN [db EXCEPT ![page].ID = Item.id] ELSE db
            /\ page' = page
            /\ pc' = afterLookup(page)
            /\ thrown' = FALSE]_vars

\* the repair write failed and the page found by URL was returned
C21_Witness ==
    /\ entry = "resolve"
    /\ pc = "returned"
    /\ foundBy = "URL"
    /\ page # 0
    /\ db[page].ID # Item.id
    /\ trace[Len(trace)] = Call("fixID", FALSE)

\* C22: a page found by the ID query gets no repair: the lookup issues no
\* write and leaves the database as it was.
C22_NoRepairWhenFoundByID ==
    /\ [](LookupReturned /\ foundBy = "ID" => Ops(trace) = <<"queryID">>)
    /\ [][(entry \in {"batch", "resolve"} /\ pc = "verify" /\ foundBy = "ID") =>
            /\ trace' = trace
            /\ db' = db
            /\ page' = page]_vars

C22_Witness ==
    /\ entry = "resolve"
    /\ pc = "returned"
    /\ foundBy = "ID"
    /\ page # 0
    /\ Ops(trace) = <<"queryID">>

-----------------------------------------------------------------------------
(* processSingleItem for one item, with every kind of project status *)

ItemStatusValues == ProjectStatusValues \cup {"", "Soudanchuu"}

InitItem ==
    /\ entry = "batch"
    /\ AuxIdle
    /\ items \in {b \in Batches : Len(b) = 1}
    /\ githubToken \in BOOLEAN
    /\ projectStatus \in [Numbers -> ItemStatusValues]
    /\ \A n \in Numbers :
          (~githubToken \/ items[1].number # n) => projectStatus[n] = Null
    /\ db \in InitDbs
    /\ FwdStart
    /\ translated = <<>>
    /\ RevIdle

SpecItem == InitItem /\ [][Next]_vars

\* the calls of handleExistingPage / handleNewPage made so far for the item
HandlerOps == SelectSeq(Ops(trace), LAMBDA o :
                  o \in {"create", "setId", "update", "getProjectStatus", "patchStatus"})

OpFailed(op) == \E k \in 1..Len(trace) : trace[k].op = op /\ ~trace[k].ok

ItemFailed == pc = "thrown" /\ failures # <<>> /\ failures[Len(failures)].idx = idx

CreatePathOrder == <<"create", "setId", "getProjectStatus", "patchStatus">>

\* C23: on the create path the calls are the create, then the set of the ID
\* on the new page, then the status sync, the latter only with a GitHub
\* token; a failed create or a failed set of the ID ends the item as failed
\* with nothing after it.
C23_CreatePathOrder ==
    (entry = "batch" /\ HandlerOps # <<>> /\ HandlerOps[1] = "create") =>
        /\ HandlerOps = SubSeq(CreatePathOrder, 1, Len(HandlerOps))
        /\ ~githubToken => Len(HandlerOps) <= 2
        /\ OpFailed("create") => (HandlerOps = <<"create">> /\ ItemFailed)
        /\ OpFailed("setId") => (HandlerOps = <<"create", "setId">> /\ ItemFailed)
        /\ (HandlerOps = <<"create">> /\ ~OpFailed("create")) => pc = "setId"
        /\ (HandlerOps = <<"create", "setId">> /\ ~OpFailed("setId")) =>
              IF githubToken THEN pc = "fetchStatus" ELSE pc \in {"loop", "done"}

\* the set of the ID failed with a GitHub token configured
C23_Witness ==
    /\ entry = "batch"
    /\ githubToken
    /\ HandlerOps = <<"create", "setId">>
    /\ OpFailed("setId")
    /\ ItemFailed

-----------------------------------------------------------------------------
(* The payload of updateNotionPage *)

\* C24: the payload of the update has no Status, parent, icon or children,
\* and the update leaves the Status of the page, and every other page, as
\* it was.
C24_UpdateKeepsStatus ==
    /\ [](entry = "batch" /\ pc = "update" =>
            /\ "Status" \notin DOMAIN createNotionPageData(Item, TRUE)
            /\ \A hasBody \in BOOLEAN : pageDataKeys(TRUE, hasBody) = {"properties"})
    /\ [][(entry = "batch" /\ pc = "update") =>
            /\ Len(db') = Len(db)
            /\ db'[page].Status = db[page].Status
            /\ \A i \in 1..Len(db) : i # page => db'[i] = db[i]]_vars

\* an update changed the State of a page and kept its Status
C24_Witness ==
    /\ entry = "batch"
    /\ trace # <<>>
    /\ trace[Len(trace)] = Call("update", TRUE)
    /\ Item.state = closed
    /\ db[page].State = capitalizedState(closed)
    /\ db[page].Status = "Soudanchuu"

-----------------------------------------------------------------------------
(* The status sync of the forward run *)

\* C25: a status write is issued only when the page's current status
\* differs from the translated project status. In the forward run
\* syncProjectStatus is at updateNotionPageStatus (pc = "patchStatus")
\* whenever a project status was found; the reverse run compares first
\* (RoundWrites).
C25_StatusWriteOnlyOnChange ==
    (entry = "batch" /\ pc = "patchStatus") =>
        JsString(db[page].Status) # mapGitHubStatusToNotion(githubStatus)

-----------------------------------------------------------------------------
(* An item without a project status, in the forward and in the reverse run *)

InitStatus == InitItem \/ InitRev

NextStatus == Next \/ NextRev

SpecStatus == InitStatus /\ [][NextStatus]_vars

\* the forward run asked for the item's project status and got null
FwdNoStatus ==
    /\ entry = "batch"
    /\ trace # <<>>
    /\ trace[Len(trace)].op = "getProjectStatus"
    /\ githubStatus = Null

\* the reverse run has processed page j, matched with an issue that has no
\* project status
RevNoStatus(dryRun, j) ==
    /\ entry = "reverse"
    /\ j < rev[dryRun].i
    /\ rev[dryRun].results[j].githubIssue # 0
    /\ issueStatus[githubIssues[rev[dryRun].results[j].githubIssue].number] = Null

\* C26: when getProjectStatus gives null for an item, no status write is
\* issued for its page, in the forward and in the reverse run: the page keeps
\* its status.
C26_NoStatusNoWrite ==
    /\ [](FwdNoStatus => (pc \in {"loop", "done"} /\ "patchStatus" \notin Range(Ops(trace))))
    /\ [][(entry = "batch" /\ pc = "fetchStatus" /\ githubStatus' = Null) => db' = db]_vars
    /\ [](entry = "reverse" =>
          \A dryRun \in BOOLEAN : \A j \in 1..Len(rev[dryRun].results) :
            RevNoStatus(dryRun, j) =>
                /\ \A k \in 1..Len(rev[dryRun].writes) :
                      rev[dryRun].writes[k].page # rev[dryRun].pages[j].id
                /\ rev[dryRun].dest[rev[dryRun].pages[j].id] = rev[dryRun].pages[j].Status)

\* an existing page with a status set in Notion went through the status
\* sync without a project status
C26_Witness ==
    /\ FwdNoStatus
    /\ "update" \in Range(Ops(trace))
    /\ db[page].Status = "Soudanchuu"

\* the live reverse run ended after a page whose issue has no project status
RevNoStatusProcessed ==
    /\ entry = "reverse"
    /\ rev[FALSE].pc = "done"
    /\ \E j \in 1..Len(rev[FALSE].results) : RevNoStatus(FALSE, j)

-----------------------------------------------------------------------------
(* A run without a GitHub token *)

\* C27: without a GitHub token processSingleItem neither asks for the
\* project status nor writes a status, after a create and after an update.
C27_NoTokenNoStatusSync ==
    (entry = "batch" /\ ~githubToken) =>
        /\ pc \notin {"fetchStatus", "patchStatus"}
        /\ "getProjectStatus" \notin Range(Ops(trace))
        /\ "patchStatus" \notin Range(Ops(trace))

\* without a token an item was updated, or created and given its ID, and
\* is done
C27_Witness ==
    /\ entry = "batch"
    /\ ~githubToken
    /\ pc \in {"loop", "done"}
    /\ HandlerOps \in {<<"update">>, <<"create", "setId">>}
    /\ ~OpFailed("update")
    /\ ~OpFailed("setId")
    /\ failures = <<>>

-----------------------------------------------------------------------------
(* The loop of processAllItems *)

\* the current item has been processed to its end without a failure
ItemDone ==
    /\ trace # <<>>
    /\ trace[Len(trace)].op \in {"update", "setId", "getProjectStatus", "patchStatus"}
    /\ trace[Len(trace)].ok \/ trace[Len(trace)].op = "getProjectStatus"

\* C28: processAllItems works on one item at a time: an item is started
\* only when the loop is between items, the item before it being done; the
\* items are started in input order, each at most once in a run, and every
\* call to the destination belongs to the item started last.
C28_OneItemAtATime ==
    /\ [](entry = "batch" =>
            /\ attempted = 1..idx
            /\ pc = "loop" /\ idx > 0 => ItemDone
            /\ pc \notin {"loop", "done", "thrown"} => idx \in 1..Len(items))
    /\ [][(entry = "batch" /\ (idx' # idx \/ pc' = "queryID") /\ run' = run) =>
            /\ pc = "loop"
            /\ idx' = idx + 1
            /\ idx' \notin attempted
            /\ trace' = <<>>]_vars
    /\ [][(entry = "batch" /\ trace' # trace /\ trace' # <<>>) =>
            /\ idx' = idx
            /\ pc \notin {"loop", "done", "thrown"}]_vars

\* the second item of a batch is in its lookup after the first was done
C28_Witness ==
    /\ entry = "batch"
    /\ Len(items) >= 2
    /\ idx = 2
    /\ pc = "queryNumber"
    /\ attempted = {1, 2}
    /\ failures = <<>>

-----------------------------------------------------------------------------
(* The status values handed to the destination *)

\* the six labels of statusMap and the default
ValidStatusNames == {JsString(label) : label \in statusMapKeys \cup {NotStarted}}

\* C29: every status value written to a page is one of the six labels of
\* the table or 'Not started': the status of a page created, the value
\* handed to updateNotionPageStatus by the forward status sync, and the
\* value handed to it by the reverse sync.
C29_OnlyValidStatusWritten ==
    /\ (entry = "batch" /\ pc = "create") =>
          JsString(createNotionPageData(Item, FALSE).Status) \in ValidStatusNames
    /\ (entry = "batch" /\ pc = "patchStatus") =>
          mapGitHubStatusToNotion(githubStatus) \in ValidStatusNames
    /\ entry = "reverse" =>
          \A dryRun \in BOOLEAN : \A k \in 1..Len(rev[dryRun].writes) :
              rev[dryRun].writes[k].status \in ValidStatusNames

-----------------------------------------------------------------------------
(* updateNotionPage and updateNotionPageStatus of one item, request by request *)

\* the page of the item before the write
RetriedDb(item) ==
    <<[ID |-> item.id, Number |-> item.number, URL |-> item.html_url,
       State |-> <<"O", "p", "e", "n">>, Status |-> "Soudanchuu"]>>

\* the properties of the PATCH of the call
writePayload ==
    IF callOp = "update" THEN createNotionPageData(Item, TRUE)
    ELSE [Status |-> mapGitHubStatusToNotion(githubStatus).val]

\* a request that was answered with a server error may have been carried out
mayApply(outcome) ==
    IF outcome.ok THEN {TRUE}
    ELSE IF outcome.status \in {500, 503} THEN {TRUE, FALSE}
    ELSE {FALSE}

\* one PATCH of the call, inside retryWithBackoff when the call uses it;
\* when the call settles, handleExistingPage / syncProjectStatus go on
RetriedRequest ==
    /\ entry = "retried"
    /\ pc = callOp
    /\ retry.pc = "call"
    /\ \E outcome \in OperationOutcomes(Len(retry.outcomes) + 1) :
       \E applied \in mayApply(outcome) :
        LET step == IF viaRetry(callOp) THEN retryStep(retry.attempt, outcome)
                    ELSE IF outcome.ok THEN "return" ELSE "throw"
            errors == SelectSeq(Append(retry.outcomes, outcome), LAMBDA o : ~o.ok)
        IN  /\ retry' = [retry EXCEPT
                            !.outcomes = Append(@, outcome),
                            !.pc = CASE step = "return" -> "returned"
                                     [] step = "wait" -> "wait"
                                     [] OTHER -> "threw",
                            !.result = CASE step = "return" -> outcome
                                         [] step = "throw" -> outcome
                                         [] step = "break" -> thrownAfterBudget(errors)
                                         [] OTHER -> @]
            /\ db' = IF applied THEN patchPage(db, page, writePayload) ELSE db
            /\ CASE step = "return" ->
                      /\ trace' = Append(trace, Call(callOp, TRUE))
                      /\ ItemSucceeds
                 [] step = "wait" ->
                      UNCHANGED <<trace, pc, failures, thrown>>
                 [] OTHER ->
                      /\ trace' = Append(trace, Call(callOp, FALSE))
                      /\ ItemThrows
    /\ UNCHANGED <<entry, items, githubToken, projectStatus, run, idx, page, foundBy,
                   githubStatus, attempted, faults, snap, createdInRun, matchedAtStart,
                   first, previous, resolved, nonFwd, callOp, boot, statusQuery>>

InitRetried ==
    /\ entry = "retried"
    /\ callOp \in {"update", "patchStatus"}
    /\ items \in {<<ItemOrder[1]>>, <<ItemOrder[2]>>}
    /\ githubToken = (callOp = "patchStatus")
    /\ githubStatus \in (IF callOp = "patchStatus" THEN {"Backlog", "Kanryou"} ELSE {Null})
    /\ projectStatus = [n \in Numbers |-> IF n = items[1].number THEN githubStatus ELSE Null]
    /\ db = IF callOp = "update" THEN RetriedDb(items[1])
            ELSE patchPage(RetriedDb(items[1]), 1, createNotionPageData(items[1], TRUE))
    /\ run = 1 /\ idx = 1 /\ pc = callOp
    /\ page = 1 /\ foundBy = "ID"
    /\ trace = IF callOp = "update" THEN <<Call("queryID", TRUE)>>
               ELSE <<Call("queryID", TRUE), Call("update", TRUE), Call("getProjectStatus", TRUE)>>
    /\ attempted = {1} /\ failures = <<>> /\ thrown = FALSE /\ faults = 0
    /\ snap = <<>> /\ createdInRun = 0 /\ matchedAtStart = TRUE
    /\ first = [foundBy |-> "none", page |-> 0, stale |-> FALSE, clean |-> FALSE]
    /\ previous = [trace |-> <<>>, page |-> 0]
    /\ resolved = <<1>>
    /\ translated = <<>>
    /\ RevIdle
    /\ retry = RetryStart
    /\ boot = <<>>
    /\ statusQuery = <<>>

NextRetried ==
    \/ RetriedRequest
    \/ RetryWait

SpecRetried == InitRetried /\ [][NextRetried]_vars

\* the call returned after one or two requests that failed with a retryable
\* status
SucceededAfterRetries ==
    /\ entry = "retried"
    /\ retry.pc = "returned"
    /\ Len(retry.outcomes) \in {2, 3}
    /\ \A k \in 1..(Len(retry.outcomes) - 1) :
          ~retry.outcomes[k].ok /\ retry.outcomes[k].status \in {409, 429, 500, 502, 503, 504}

\* the database after the write of the call, made once
WrittenOnce ==
    patchPage(IF callOp = "update" THEN RetriedDb(Item)
              ELSE patchPage(RetriedDb(Item), 1, createNotionPageData(Item, TRUE)),
              1, writePayload)

\* C30: an update or a status patch whose first one or two requests fail
\* with a retryable status and whose next request succeeds makes
\* processSingleItem return without raising, with the database as one
\* successful write leaves it; the item is only failed by a request that
\* fails with another status or by the third failure.
C30_RetryInvisible ==
    /\ SucceededAfterRetries =>
          /\ pc = "loop"
          /\ ~thrown
          /\ failures = <<>>
          /\ db = WrittenOnce
    /\ (entry = "retried" /\ pc = "thrown") =>
          /\ ~retry.outcomes[Len(retry.outcomes)].ok
          /\ \/ retry.outcomes[Len(retry.outcomes)].status \notin {409, 429, 500, 502, 503, 504}
             \/ Len(retry.outcomes) = 3

\* the status patch succeeded at the third request, after a 429 and a 503
\* that was carried out
C30_Witness ==
    /\ SucceededAfterRetries
    /\ callOp = "patchStatus"
    /\ Len(retry.outcomes) = 3
    /\ retry.outcomes[1].status = 429
    /\ retry.outcomes[2].status = 503
    /\ db[1].Status = "Kanryou"
    /\ pc = "loop"

-----------------------------------------------------------------------------
(* The SyncError of a failed item *)

\* C31: the failure recorded for an item is a SyncError with itemType
\* 'Pull Request' exactly when the item has a merged attribute, with the
\* item's number, and with the error thrown by the failed step as cause.
C31_SyncErrorOfItem ==
    (entry = "batch" /\ pc = "thrown") =>
        LET e == failures[Len(failures)]
            failed == trace[Len(trace)]
        IN  /\ e.itemType = (IF Item.merged # "absent" THEN "Pull Request" ELSE "Issue")
            /\ e.itemNumber = Item.number
            /\ ~failed.ok
            /\ e.cause = [instanceOfError |-> TRUE, thrownBy |-> failed.op]

\* the set of the ID failed for a pull request
C31_Witness ==
    /\ entry = "batch"
    /\ pc = "thrown"
    /\ Item.merged = "false"
    /\ failures[Len(failures)].itemType = "Pull Request"
    /\ failures[Len(failures)].cause.thrownBy = "setId"

-----------------------------------------------------------------------------
(* The structured key of a title *)

\* the title begins with PBI- in any letter case, the digits d and a colon
BeginsWithKey(t, d) ==
    /\ Len(d) > 0
    /\ \A k \in 1..Len(d) : d[k] \in Digits
    /\ Len(t) >= 5 + Len(d)
    /\ [k \in 1..4 |-> toLowerCase(t[k])] = <<"p", "b", "i", "-">>
    /\ SubSeq(t, 5, 4 + Len(d)) = d
    /\ t[5 + Len(d)] = ":"

\* C32: a pbi-id match is produced only when the page's title begins with
\* PBI-<digits>: and the matched candidate's title begins with the same
\* form carrying the identical string of digits.
C32_KeyMatchOnlyOnSameKey ==
    (Matched /\ matchResults[1].matchType = "pbi-id") =>
        LET t == notionPages[1].title
            c == githubIssues[matchResults[1].githubIssue].title
        IN  \E n \in 1..(Len(t) - 5) :
                /\ BeginsWithKey(t, SubSeq(t, 5, 4 + n))
                /\ BeginsWithKey(c, SubSeq(t, 5, 4 + n))

\* "PBI-42: Foo" against <<"PBI-042: Foo", "pbi-42:Bar">>: the zero-padded
\* key is passed over, the second candidate is matched by its key
C32_Witness ==
    /\ Matched
    /\ notionPages[1].title = tFoo42
    /\ githubIssues = <<[number |-> 1, title |-> tFoo042], [number |-> 2, title |-> tBar42]>>
    /\ matchResults[1].matchType = "pbi-id"
    /\ matchResults[1].githubIssue = 2

\* C33: a page whose title carries a key is never paired with a candidate
\* whose title carries a different key.
C33_NoPairAcrossKeys ==
    (Matched /\ matchResults[1].githubIssue # 0) =>
        LET pageKey == extractPbiId(notionPages[1].title)
            issueKey == extractPbiId(githubIssues[matchResults[1].githubIssue].title)
        IN  (pageKey # NoPbiId /\ issueKey # NoPbiId) => pageKey = issueKey

-----------------------------------------------------------------------------
(* The forward run over the items getProjectItems returns: the items of a  *)
(* project of the organization, of whatever repository. Two of them have   *)
(* the same number in different repositories.                              *)

ProjectBatches == { <<ItemOrder[1], OtherRepoItem>>, <<OtherRepoItem, ItemOrder[1]>> }

InitProject ==
    /\ entry = "batch"
    /\ AuxIdle
    /\ items \in ProjectBatches
    /\ githubToken \in BOOLEAN
    /\ projectStatus \in [Numbers -> ProjectStatusValues]
    /\ \A n \in Numbers :
          (~githubToken \/ \A k \in 1..Len(items) : items[k].number # n) => projectStatus[n] = Null
    /\ db \in InitDbs
    /\ FwdStart
    /\ translated = <<>>
    /\ RevIdle

SpecProject == InitProject /\ [][Next]_vars

BatchIds == {items[k].id : k \in 1..Len(items)}

\* C34: within one run no two items of the batch get the same page, and a
\* page whose ID is the id of one item of the batch is never given the id of
\* another item, also when two items have the same number in two
\* repositories.
C34_OneRecordPerItem ==
    [][ (entry = "batch" /\ run' = run) =>
          /\ \A i, j \in DOMAIN resolved' :
                (i # j /\ resolved'[i] # 0) => resolved'[j] # resolved'[i]
          /\ \A p \in DOMAIN db :
                (db[p].ID \in BatchIds /\ db'[p].ID \in BatchIds) => db'[p].ID = db[p].ID
      ]_vars

-----------------------------------------------------------------------------
(* processSingleItem called again for the item of the previous run *)

\* as NextRun; the calls and the page the run ended with are remembered
ProcessAgain ==
    /\ entry = "batch"
    /\ pc \in {"done", "thrown"}
    /\ run < MaxRuns
    /\ run' = run + 1
    /\ idx' = 0
    /\ pc' = "loop"
    /\ page' = 0
    /\ foundBy' = "none"
    /\ githubStatus' = Null
    /\ trace' = <<>>
    /\ attempted' = {}
    /\ failures' = <<>>
    /\ thrown' = FALSE
    /\ snap' = Statuses(db)
    /\ createdInRun' = 0
    /\ matchedAtStart' = FALSE
    /\ resolved' = [k \in 1..Len(items) |-> 0]
    /\ previous' = [trace |-> trace, page |-> page]
    /\ UNCHANGED <<auxVars, entry, items, githubToken, projectStatus, db, faults, first, nonFwd>>

NextAgain ==
    \/ BeginItem
    \/ EndBatch
    \/ QueryID
    \/ QueryNumber
    \/ QueryURL
    \/ Verify
    \/ Update
    \/ Create
    \/ SetId
    \/ FetchStatus
    \/ PatchStatus
    \/ ProcessAgain

SpecAgain == InitItem /\ [][NextAgain]_vars

\* the previous run found no page for the item, created one, and failed to
\* set its ID
CreatedThenSetIdFailed ==
    /\ entry = "batch"
    /\ run > 1
    /\ previous.trace = <<Call("queryID", TRUE), Call("queryNumber", TRUE),
                          Call("queryURL", TRUE), Call("create", TRUE), Call("setId", FALSE)>>

\* the lookup of the item's next processSingleItem has returned
LookedUpAgain ==
    /\ CreatedThenSetIdFailed
    /\ idx = 1
    /\ pc \notin {"queryID", "queryNumber", "queryURL", "verify"}

-----------------------------------------------------------------------------
(* The counters of the reverse sync *)

FailedWrites(st) == SelectSeq(st.writes, LAMBDA w : ~w.ok)

\* C36: when a run reaches its summary, matchedCount plus the number of
\* unmatched pages is the number of pages fetched, and updatedCount plus
\* skippedCount is matchedCount, also when a status fetch or a status write
\* failed for some page.
C36_CountersAddUp ==
    entry = "reverse" =>
        \A dryRun \in BOOLEAN :
            rev[dryRun].pc = "done" =>
                /\ rev[dryRun].matchedCount + Len(rev[dryRun].unmatchedPages)
                      = Len(rev[dryRun].pages)
                /\ rev[dryRun].updatedCount + rev[dryRun].skippedCount
                      = rev[dryRun].matchedCount

\* a live run over a matched and an unmatched page, the status write failed
C36_Witness ==
    /\ entry = "reverse"
    /\ rev[FALSE].pc = "done"
    /\ Len(rev[FALSE].pages) = 2
    /\ rev[FALSE].matchedCount = 1
    /\ Len(rev[FALSE].unmatchedPages) = 1
    /\ Len(FailedWrites(rev[FALSE])) = 1
    /\ rev[FALSE].skippedCount = 1
    /\ rev[FALSE].updatedCount = 0

\* C37: a failure of the status fetch or of the status write of a matched
\* page is caught: the page is counted as skipped and not as updated, and
\* the loop goes on with the next match result.
C37_ErrorSkipsOnePage ==
    [][ entry = "reverse" =>
          \A dryRun \in BOOLEAN :
              (rev[dryRun].pc = "process" /\ rev'[dryRun].faults > rev[dryRun].faults) =>
                  /\ rev'[dryRun].skippedCount = rev[dryRun].skippedCount + 1
                  /\ rev'[dryRun].updatedCount = rev[dryRun].updatedCount
                  /\ rev'[dryRun].matchedCount = rev[dryRun].matchedCount + 1
                  /\ rev'[dryRun].pc = "process"
                  /\ rev'[dryRun].i = rev[dryRun].i + 1
      ]_vars

\* the write for the first of two matched pages failed, the second page was
\* processed after it
C37_Witness ==
    /\ entry = "reverse"
    /\ rev[FALSE].pc = "done"
    /\ rev[FALSE].matchedCount = 2
    /\ Len(rev[FALSE].writes) = 2
    /\ ~rev[FALSE].writes[1].ok
    /\ rev[FALSE].writes[2].ok
    /\ rev[FALSE].skippedCount = 1
    /\ rev[FALSE].updatedCount = 1

-----------------------------------------------------------------------------
(* src/services/github.ts: getProjectStatus *)

ProjectTitles == {"P", "Q"}

\* fieldValueByName(name: "Status"): null when the item has no Status there
ProjectNode == [title : ProjectTitles, status : {Null, "Backlog", "Kanryou"}]

\* what the request may give: a rejection, a body with errors, no repository,
\* no issue, no projectItems.nodes, or the projects of the issue
Responses ==
    { [kind |-> k, nodes |-> <<>>] :
        k \in {"rejected", "errors", "noRepository", "noIssue", "noNodes"} }
    \cup { [kind |-> "nodes", nodes |-> ns] :
             ns \in UNION { [1..k -> ProjectNode] : k \in 0..MaxProjects } }

\* config.projectName; the empty string when project_name is not given
ProjectNames == {"", "Q", "Z"}

targetItem_noFallback(projectItems, projectName) ==
    IF projectName # ""
    THEN FirstIndex({i \in 1..Len(projectItems) : projectItems[i].title = projectName})
    ELSE IF Len(projectItems) > 0 THEN 1 ELSE 0

\* targetItem: the first project with the given title, when a title is
\* given; failing that the first project; 0 for undefined
targetItem(projectItems, projectName) ==
    LET named == IF projectName # ""
                 THEN FirstIndex({i \in 1..Len(projectItems) :
                                     projectItems[i].title = projectName})
                 ELSE 0
    IN  IF named # 0 THEN named
        ELSE IF Len(projectItems) > 0 THEN 1 ELSE 0

\* the body of the try block: what it returns, or that it threw
statusOfResponse(response, projectName) ==
    IF response.kind = "rejected" THEN [threw |-> TRUE, value |-> Null]
    ELSE IF response.kind \in {"errors", "noRepository", "noIssue", "noNodes"}
    THEN [threw |-> FALSE, value |-> Null]
    ELSE LET t == targetItem(response.nodes, projectName)
         IN  [threw |-> FALSE, value |-> IF t = 0 THEN Null ELSE response.nodes[t].status]

\* getProjectStatus: the catch block logs and returns null
getProjectStatus(response, projectName) ==
    IF statusOfResponse(response, projectName).threw
    THEN [threw |-> FALSE, value |-> Null]
    ELSE statusOfResponse(response, projectName)

GetProjectStatus ==
    /\ entry = "projectStatus"
    /\ statusQuery.pc = "call"
    /\ statusQuery' = [statusQuery EXCEPT
                          !.pc = "returned",
                          !.result = getProjectStatus(statusQuery.response,
                                                      statusQuery.projectName)]
    /\ UNCHANGED <<entry, fwdVars, nonFwd, retry, callOp, boot>>

InitProjectStatus ==
    /\ entry = "projectStatus"
    /\ FwdIdle
    /\ translated = <<>>
    /\ RevIdle
    /\ retry = <<>>
    /\ callOp = "none"
    /\ boot = <<>>
    /\ statusQuery \in { [pc |-> "call", response |-> r, projectName |-> n,
                          result |-> [threw |-> FALSE, value |-> Null]] :
                            r \in Responses, n \in ProjectNames }

NextProjectStatus == GetProjectStatus

SpecProjectStatus == InitProjectStatus /\ [][NextProjectStatus]_vars

StatusReturned == entry = "projectStatus" /\ statusQuery.pc = "returned"

Named(nodes, name) == {i \in 1..Len(nodes) : nodes[i].title = name}

\* C38: getProjectStatus never throws; it returns the Status of the project
\* with the configured name when the item is in such a project, the Status
\* of the first project when no name is configured or no project has the
\* name, and null when the item is in no project or the request fails.
C38_StatusOfNamedElseFirst ==
    StatusReturned =>
        LET nodes == statusQuery.response.nodes
            name == statusQuery.projectName
            result == statusQuery.result
        IN  /\ ~result.threw
            /\ (name # "" /\ Named(nodes, name) # {}) =>
                  /\ \E i \in Named(nodes, name) : result.value = nodes[i].status
                  /\ result.value = nodes[FirstIndex(Named(nodes, name))].status
            /\ (nodes # <<>> /\ (name = "" \/ Named(nodes, name) = {})) =>
                  result.value = nodes[1].status
            /\ nodes = <<>> => result.value = Null

\* the named project is the second of two
C38_Witness ==
    /\ StatusReturned
    /\ statusQuery.projectName = "Q"
    /\ statusQuery.response.nodes = <<[title |-> "P", status |-> "Backlog"],
                                      [title |-> "Q", status |-> "Kanryou"]>>
    /\ statusQuery.result = [threw |-> FALSE, value |-> "Kanryou"]

====
